---- MODULE Spec2Model ----
(***************************************************************************)
(* CyberNavigator: the Career DNA domain classifier                        *)
(* (src/engine/assessor.py, get_cyber_domain) as a state machine.          *)
(*                                                                         *)
(* Representation of Python values:                                        *)
(*   str          a sequence of one-character strings ("c " is <<"c"," ">>)*)
(*                for the answers, whose characters the code inspects;     *)
(*                an atomic TLA+ string for category names, which the code *)
(*                only compares and copies                                 *)
(*   list         a sequence                                               *)
(*   dict         the score dict, whose order max(), keys() and values()   *)
(*                follow, holds as `items` the sequence of its (key,       *)
(*                value) pairs in insertion order; a dict the code only    *)
(*                looks up by key is a function                            *)
(*   float with   an integer count of tenths (61.0 is 610), produced by    *)
(*   one decimal  round1 from an exact fraction                            *)
(*   raise        an outcome record with kind = "raised"                   *)
(***************************************************************************)
EXTENDS Integers, Sequences, FiniteSets, TLC

\* ------------------------------------------------------------------ bounds

\* The first NumFree answers of an input range over all of RawTokens.
NumFree == 3

\* The number of concurrent callers.
NumCallers == 2

\* The number of calls one caller makes one after the other.
MaxCalls == 3

\* The number of generate_roadmap calls one after the other.
MaxRoadmapCalls == 2

\* The first NumVaried answers of a list that is called repeatedly range over
\* A, B, C and D.
NumVaried == 2

\* In the app, the first NumOpen questions are answered with any of the four
\* options, the later ones with A or D, the same letter on all of them.
NumOpen == 1

\* Input lengths range over (NumQuestions - LenSlack)..(NumQuestions + LenSlack).
LenSlack == 1

\* The clamp and rounding of the confidence are examined for gaps 0..MaxGap.
MaxGap == 60

\* --------------------------------------------------------- static tables

\* The answer count get_cyber_domain insists on.
NumQuestions == 10

\* The letters accepted after normalisation: ["A", "B", "C", "D"].
ValidAnswers == {<<"A">>, <<"B">>, <<"C">>, <<"D">>}

\* The categories the weight table and CATEGORY_NAMES are keyed by.
Categories == {"Red Team", "Blue Team", "AppSec", "GRC", "Cloud Security"}

\* One row of the matrix: the five category points of one (question, answer).
Row(r, b, a, g, c) ==
    [cat \in Categories |->
        CASE cat = "Red Team" -> r
          [] cat = "Blue Team" -> b
          [] cat = "AppSec" -> a
          [] cat = "GRC" -> g
          [] cat = "Cloud Security" -> c]

\* The four rows of one question, keyed by answer letter.
Question(ra, rb, rc, rd) ==
    [ans \in ValidAnswers |->
        CASE ans = <<"A">> -> ra
          [] ans = <<"B">> -> rb
          [] ans = <<"C">> -> rc
          [] ans = <<"D">> -> rd]

\* Mutant: a table whose question 10 is short of choice D and holds a 6.
SCORING_MATRIX_Patchy ==
    [q \in 1..10 |->
        IF q = 10
        THEN [ans \in ValidAnswers \ {<<"D">>} |-> Row(6, 1, 2, 0, 1)]
        ELSE Question(Row(2, 3, 5, 0, 4), Row(4, 4, 4, 1, 3),
                      Row(3, 3, 2, 3, 2), Row(1, 2, 0, 5, 1))]

\* Lines 102-163.
SCORING_MATRIX ==
    [q \in 1..10 |->
        CASE q = 1 -> Question(Row(2, 3, 5, 0, 4), Row(4, 4, 4, 1, 3),
                               Row(3, 3, 2, 3, 2), Row(1, 2, 0, 5, 1))
          [] q = 2 -> Question(Row(1, 2, 5, 1, 4), Row(5, 2, 4, 1, 2),
                               Row(2, 3, 2, 3, 3), Row(0, 1, 1, 5, 1))
          [] q = 3 -> Question(Row(4, 3, 3, 1, 2), Row(2, 4, 2, 3, 3),
                               Row(0, 1, 1, 5, 1), Row(3, 3, 4, 2, 4))
          [] q = 4 -> Question(Row(5, 2, 2, 1, 2), Row(1, 5, 3, 2, 4),
                               Row(0, 1, 1, 5, 1), Row(2, 3, 4, 3, 3))
          [] q = 5 -> Question(Row(5, 1, 3, 0, 2), Row(1, 5, 2, 2, 4),
                               Row(3, 3, 4, 2, 3), Row(0, 2, 1, 5, 1))
          [] q = 6 -> Question(Row(5, 1, 3, 0, 2), Row(1, 5, 2, 2, 4),
                               Row(3, 3, 4, 2, 3), Row(0, 2, 1, 5, 1))
          [] q = 7 -> Question(Row(5, 2, 3, 0, 1), Row(1, 5, 1, 1, 4),
                               Row(2, 2, 5, 1, 2), Row(0, 1, 1, 5, 1))
          [] q = 8 -> Question(Row(5, 2, 3, 0, 2), Row(1, 5, 1, 1, 4),
                               Row(2, 2, 5, 1, 2), Row(0, 1, 1, 5, 1))
          [] q = 9 -> Question(Row(5, 1, 2, 0, 1), Row(1, 5, 1, 1, 4),
                               Row(2, 2, 5, 1, 2), Row(0, 1, 1, 5, 1))
          [] q = 10 -> Question(Row(5, 1, 2, 0, 1), Row(1, 5, 1, 1, 3),
                                Row(2, 2, 5, 1, 2), Row(0, 1, 1, 5, 1))]

CATEGORY_NAMES ==
    [cat \in Categories |->
        CASE cat = "Red Team" -> "Red Team (Offensive)"
          [] cat = "Blue Team" -> "Blue Team (Defensive)"
          [] cat = "AppSec" -> "Application Security"
          [] cat = "GRC" -> "GRC (Governance, Risk & Compliance)"
          [] cat = "Cloud Security" -> "Cloud Security"]

\* ------------------------------------------------------------ str methods

\* A str is a sequence of characters, each a string.  A printable ASCII
\* character is written as itself; tab, line feed, carriage return and form
\* feed are "\t", "\n", "\r" and "\f"; any other character is written as
\* its Python escape, so "\\x0b" is the one character \x0b, "\\xe9" the one
\* character \xe9 and "\\u2003" the one character \u2003.  The alphabet of the
\* model is Latin-1 (U+0000 to U+00FF) together with the characters of
\* Whitespace.

\* The characters of the alphabet that str.upper() changes ...
LowerLetters ==
    <<"a", "b", "c", "d", "e", "f", "g", "h", "i", "j", "k", "l", "m",
      "n", "o", "p", "q", "r", "s", "t", "u", "v", "w", "x", "y", "z",
      "\\xb5", "\\xdf",
      "\\xe0", "\\xe1", "\\xe2", "\\xe3", "\\xe4", "\\xe5", "\\xe6", "\\xe7",
      "\\xe8", "\\xe9", "\\xea", "\\xeb", "\\xec", "\\xed", "\\xee", "\\xef",
      "\\xf0", "\\xf1", "\\xf2", "\\xf3", "\\xf4", "\\xf5", "\\xf6",
      "\\xf8", "\\xf9", "\\xfa", "\\xfb", "\\xfc", "\\xfd", "\\xfe", "\\xff">>

\* ... and what it turns each into, position by position: one character,
\* or two for the sharp s.
UpperLetters ==
    <<<<"A">>, <<"B">>, <<"C">>, <<"D">>, <<"E">>, <<"F">>, <<"G">>,
      <<"H">>, <<"I">>, <<"J">>, <<"K">>, <<"L">>, <<"M">>, <<"N">>,
      <<"O">>, <<"P">>, <<"Q">>, <<"R">>, <<"S">>, <<"T">>, <<"U">>,
      <<"V">>, <<"W">>, <<"X">>, <<"Y">>, <<"Z">>,
      <<"\\u039c">>, <<"S", "S">>,
      <<"\\xc0">>, <<"\\xc1">>, <<"\\xc2">>, <<"\\xc3">>, <<"\\xc4">>,
      <<"\\xc5">>, <<"\\xc6">>, <<"\\xc7">>, <<"\\xc8">>, <<"\\xc9">>,
      <<"\\xca">>, <<"\\xcb">>, <<"\\xcc">>, <<"\\xcd">>, <<"\\xce">>,
      <<"\\xcf">>, <<"\\xd0">>, <<"\\xd1">>, <<"\\xd2">>, <<"\\xd3">>,
      <<"\\xd4">>, <<"\\xd5">>, <<"\\xd6">>,
      <<"\\xd8">>, <<"\\xd9">>, <<"\\xda">>, <<"\\xdb">>, <<"\\xdc">>,
      <<"\\xdd">>, <<"\\xde">>, <<"\\u0178">>>>

\* The upper-casing as a table from character to str.
UpperOf ==
    [c \in {LowerLetters[i] : i \in 1..Len(LowerLetters)} |->
        UpperLetters[CHOOSE i \in 1..Len(LowerLetters) : LowerLetters[i] = c]]

\* str.upper() on one character: a str, the character itself if it is not
\* cased.
UpperChar(c) == IF c \in DOMAIN UpperOf THEN UpperOf[c] ELSE <<c>>

\* str.upper(): the upper-casings of the characters, joined.
RECURSIVE upper(_)
upper(s) == IF s = <<>> THEN <<>> ELSE UpperChar(Head(s)) \o upper(Tail(s))

\* The characters str.strip() removes: those for which str.isspace() holds.
Whitespace ==
    {"\t", "\n", "\\x0b", "\f", "\r", "\\x1c", "\\x1d", "\\x1e", "\\x1f", " ",
     "\\x85", "\\xa0", "\\u1680", "\\u2000", "\\u2001", "\\u2002", "\\u2003",
     "\\u2004", "\\u2005", "\\u2006", "\\u2007", "\\u2008", "\\u2009",
     "\\u200a", "\\u2028", "\\u2029", "\\u202f", "\\u205f", "\\u3000"}

RECURSIVE lstrip(_)
lstrip(s) ==
    IF s # <<>> /\ Head(s) \in Whitespace THEN lstrip(Tail(s)) ELSE s

RECURSIVE rstrip(_)
rstrip(s) ==
    IF s # <<>> /\ s[Len(s)] \in Whitespace
    THEN rstrip(SubSeq(s, 1, Len(s) - 1))
    ELSE s

\* str.strip(): leading and trailing whitespace removed.
strip(s) == rstrip(lstrip(s))

\* Mutant: the answer is upper-cased but not stripped.
Normalize_NoStrip(answer) == upper(answer)

\* answer.upper().strip()
Normalize(answer) == strip(upper(answer))

\* ------------------------------------------------------------------ state

VARIABLES
    scoring_matrix,  \* the module global SCORING_MATRIX, read at call time
    category_names,  \* the module global CATEGORY_NAMES, read at call time
    responses,       \* the caller's list handed to get_cyber_domain
    num_responses,   \* len(responses)
    pc,              \* "ready" before the call, "loop" inside it, "done" after it
    question_num,    \* the loop's position: the question being processed
    scores,          \* the call's local score dict
    outcome,         \* what the call produced: a returned dict or a raised error
    valid_input,     \* history: every answer read so far is a letter A-D
                     \* once upper-cased and trimmed, and there are 10 of them
    threads,         \* concurrent callers: each caller's list, position and
                     \* outcome
    thread_scores,   \* concurrent callers: the score dicts, by the cell they
                     \* live in
    call_log,        \* history: for the list of the run's first call, the
                     \* outcome of that call and the number of calls made on
                     \* that list
    num_calls,       \* history: the number of calls made so far
    api_keys,        \* os.environ: whether GEMINI_API_KEY and OPENAI_API_KEY
                     \* are set to a non-empty value
    roadmap_call,    \* the arguments of the generate_roadmap call
    roadmap_pc,      \* "ready" before generate_roadmap, "waiting" while its
                     \* request is with the provider, "done" after it
    roadmap_post,    \* the request in flight: the generator that posted it,
                     \* the prompt, and the cache key of the call
    attempts,        \* history: the generators generate_roadmap invoked, in
                     \* order, each with whether it raised
    roadmap_outcome, \* what generate_roadmap produced
    gemini_cache,    \* the st.cache_data store of _generate_with_gemini: the
                     \* values returned for the arguments of earlier calls
    roadmap_calls,   \* the number of generate_roadmap calls made so far
    session,         \* st.session_state of one browser session of app.py
    script,          \* where the session's script run is: "idle" between
                     \* runs, or the call it waits in, with the request of a
                     \* generate_roadmap call in flight
    event            \* history: the user event the last script run served

\* The state of one caller's single call.
single_call_vars ==
    <<responses, num_responses, pc, question_num, scores, outcome, valid_input>>

\* The state of the concurrent callers.
thread_vars == <<threads, thread_scores>>

\* The record of the calls made one after the other.
log_vars == <<call_log, num_calls>>

\* The state of a generate_roadmap call.
roadmap_vars ==
    <<api_keys, roadmap_call, roadmap_pc, roadmap_post, attempts,
      roadmap_outcome, gemini_cache, roadmap_calls>>

\* The state of one session of the Streamlit app.
app_vars == <<session, script, event>>

\* The state outside engine/assessor.py.
outer_vars == <<roadmap_vars, app_vars>>

vars ==
    <<scoring_matrix, category_names, single_call_vars, thread_vars, log_vars,
      outer_vars>>

\* Mutant: every call works on one module-level score dict.
ScoresCell_Shared(c) == 1

\* Line 198: the call binds its local `scores` to a dict of its own.
ScoresCell(c) == c

\* No concurrent callers.
ThreadsIdle == threads = <<>> /\ thread_scores = <<>>

\* No record of calls kept.
LogIdle == call_log = <<>> /\ num_calls = 0

\* No generate_roadmap call.
RoadmapIdle ==
    /\ api_keys = [GEMINI_API_KEY |-> FALSE, OPENAI_API_KEY |-> FALSE]
    /\ roadmap_call = <<>>
    /\ roadmap_pc = "idle"
    /\ roadmap_post = [kind |-> "none"]
    /\ attempts = <<>>
    /\ roadmap_outcome = [kind |-> "none"]
    /\ gemini_cache = <<>>
    /\ roadmap_calls = 0

\* No app session.
AppIdle ==
    /\ session = <<>>
    /\ script = [at |-> "idle", call |-> [kind |-> "none"]]
    /\ event = [name |-> "none", fault |-> FALSE]

\* Nothing outside engine/assessor.py takes part.
OuterIdle == RoadmapIdle /\ AppIdle

\* --------------------------------------------------------- get_cyber_domain

\* raise ValueError(f"Expected 10 responses, got {len(responses)}")
LengthError(n) ==
    [kind |-> "raised", exc |-> "ValueError", what |-> "length",
     expected |-> NumQuestions, got |-> n]

\* Mutant: the question is reported 0-indexed (enumerate without start=1).
AnswerError_ZeroIndexed(answer, qnum) ==
    [kind |-> "raised", exc |-> "ValueError", what |-> "answer",
     answer |-> answer, question |-> qnum - 1]

\* raise ValueError(f"Invalid answer '{answer}' for question {question_num}. ...")
AnswerError(answer, qnum) ==
    [kind |-> "raised", exc |-> "ValueError", what |-> "answer",
     answer |-> answer, question |-> qnum]

\* Line 219: scores[category] += points on a category scores does not hold
\* raises KeyError(category).
CategoryError(cat) ==
    [kind |-> "raised", exc |-> "KeyError", what |-> "category", key |-> cat]

\* A value that is a raised error, not a score dict.
HasRaised(result) == "kind" \in DOMAIN result /\ result.kind = "raised"

\* scores = {"Red Team": 0, "Blue Team": 0, "AppSec": 0, "GRC": 0, "Cloud Security": 0}
InitialScores ==
    [items |-> <<<<"Red Team", 0>>, <<"Blue Team", 0>>, <<"AppSec", 0>>,
                 <<"GRC", 0>>, <<"Cloud Security", 0>>>>]

\* scores.keys(): the keys of a score dict in insertion order.
Keys(sc) == [i \in 1..Len(sc.items) |-> sc.items[i][1]]

\* scores.values(): the values in the dict's insertion order.
Values(sc) == [i \in 1..Len(sc.items) |-> sc.items[i][2]]

\* category in scores
Holds(sc, cat) == \E i \in 1..Len(sc.items) : sc.items[i][1] = cat

\* scores[category] of a key the dict holds, and scores.get(category).
ScoreOf(sc, cat) == sc.items[CHOOSE i \in 1..Len(sc.items) : sc.items[i][1] = cat][2]

\* Mutant: the matrix is looked up with a 0-indexed question number.
AddAnswerScores_ZeroIndexed(sc, qnum, answer) ==
    IF (qnum - 1) \in DOMAIN scoring_matrix
       /\ answer \in DOMAIN scoring_matrix[qnum - 1]
    THEN LET answer_scores == scoring_matrix[qnum - 1][answer]
             unknown == {cat \in DOMAIN answer_scores : ~Holds(sc, cat)}
         IN  IF unknown # {}
             THEN CategoryError(CHOOSE cat \in unknown : TRUE)
             ELSE [items |->
                     [i \in 1..Len(sc.items) |->
                         IF sc.items[i][1] \in DOMAIN answer_scores
                         THEN <<sc.items[i][1],
                                sc.items[i][2]
                                    + answer_scores[sc.items[i][1]]>>
                         ELSE sc.items[i]]]
    ELSE sc

\* Mutant: every weight is counted twice.
AddAnswerScores_Doubled(sc, qnum, answer) ==
    IF qnum \in DOMAIN scoring_matrix
       /\ answer \in DOMAIN scoring_matrix[qnum]
    THEN LET answer_scores == scoring_matrix[qnum][answer]
             unknown == {cat \in DOMAIN answer_scores : ~Holds(sc, cat)}
         IN  IF unknown # {}
             THEN CategoryError(CHOOSE cat \in unknown : TRUE)
             ELSE [items |->
                     [i \in 1..Len(sc.items) |->
                         IF sc.items[i][1] \in DOMAIN answer_scores
                         THEN <<sc.items[i][1],
                                sc.items[i][2]
                                    + 2 * answer_scores[sc.items[i][1]]>>
                         ELSE sc.items[i]]]
    ELSE sc

\* Lines 216-219: the guarded lookup and the accumulation of one answer's
\* points, row key by row key: the new scores, each key where it was, or the
\* KeyError of a row key that scores does not hold (the first such key in the
\* row's order; the rows of the model hold at most one).
AddAnswerScores(sc, qnum, answer) ==
    IF qnum \in DOMAIN scoring_matrix
       /\ answer \in DOMAIN scoring_matrix[qnum]
    THEN LET answer_scores == scoring_matrix[qnum][answer]
             unknown == {cat \in DOMAIN answer_scores : ~Holds(sc, cat)}
         IN  IF unknown # {}
             THEN CategoryError(CHOOSE cat \in unknown : TRUE)
             ELSE [items |->
                     [i \in 1..Len(sc.items) |->
                         IF sc.items[i][1] \in DOMAIN answer_scores
                         THEN <<sc.items[i][1],
                                sc.items[i][2]
                                    + answer_scores[sc.items[i][1]]>>
                         ELSE sc.items[i]]]
    ELSE sc

\* The loop over enumerate(responses, start=1), from question_num on: the
\* final scores, or the error raised at the first invalid answer or at the
\* first row key that scores does not hold.
RECURSIVE ProcessResponses(_, _, _)
ProcessResponses(resp, qnum, sc) ==
    IF qnum > Len(resp)
    THEN [kind |-> "scored", scores |-> sc]
    ELSE LET answer == Normalize(resp[qnum])
             added == AddAnswerScores(sc, qnum, answer)
         IN  IF answer \notin ValidAnswers
             THEN AnswerError(answer, qnum)
             ELSE IF HasRaised(added)
             THEN added
             ELSE ProcessResponses(resp, qnum + 1, added)

\* max(scores, key=scores.get) over the dict's keys from position i on, best
\* so far being `best`: a later key replaces it only with a strictly greater
\* score.
RECURSIVE MaxKeyFrom(_, _, _)
MaxKeyFrom(sc, i, best) ==
    IF i > Len(sc.items)
    THEN best
    ELSE MaxKeyFrom(sc, i + 1,
                    IF ScoreOf(sc, sc.items[i][1]) > ScoreOf(sc, best)
                    THEN sc.items[i][1]
                    ELSE best)

\* Mutant: among equal maxima the last key wins.
PrimaryDomain_LastMaximum(sc) ==
    LET best == {i \in 1..Len(sc.items) : \A j \in 1..Len(sc.items) : sc.items[j][2] <= sc.items[i][2]}
    IN  sc.items[CHOOSE i \in best : \A j \in best : j <= i][1]

\* primary_domain = max(scores, key=scores.get)
PrimaryDomain(sc) == MaxKeyFrom(sc, 2, sc.items[1][1])

\* x inserted into the descending sequence s.
RECURSIVE InsertDesc(_, _)
InsertDesc(x, s) ==
    IF s = <<>> THEN <<x>>
    ELSE IF x >= Head(s) THEN <<x>> \o s
    ELSE <<Head(s)>> \o InsertDesc(x, Tail(s))

\* Mutant: sorted(values) without reverse=True.
RECURSIVE InsertAsc(_, _)
InsertAsc(x, s) ==
    IF s = <<>> THEN <<x>>
    ELSE IF x <= Head(s) THEN <<x>> \o s
    ELSE <<Head(s)>> \o InsertAsc(x, Tail(s))

RECURSIVE SortedDesc_Ascending(_)
SortedDesc_Ascending(s) ==
    IF s = <<>> THEN <<>> ELSE InsertAsc(Head(s), SortedDesc_Ascending(Tail(s)))

\* sorted(values, reverse=True)
RECURSIVE SortedDesc(_)
SortedDesc(s) ==
    IF s = <<>> THEN <<>> ELSE InsertDesc(Head(s), SortedDesc(Tail(s)))

\* max_possible_difference = 50
max_possible_difference == 50

Min(a, b) == IF a <= b THEN a ELSE b

\* round(num / den, 1) in tenths, ties to even, for num >= 0 and den > 0.
round1(num, den) ==
    LET q == (10 * num) \div den
        r == (10 * num) % den
    IN  IF 2 * r > den THEN q + 1
        ELSE IF 2 * r = den THEN q + (q % 2)
        ELSE q

\* Mutant: the min(100, ...) clamp is missing.
Confidence_Unclamped(score_difference) ==
    round1(50 * max_possible_difference + score_difference * 50,
           max_possible_difference)

\* Mutant: the additive baseline of 50 is missing.
Confidence_NoBaseline(score_difference) ==
    round1(Min(100 * max_possible_difference, score_difference * 50),
           max_possible_difference)

\* round(min(100, 50 + (score_difference / max_possible_difference * 50)), 1),
\* in tenths: the fraction is kept over the denominator max_possible_difference.
Confidence(score_difference) ==
    round1(Min(100 * max_possible_difference,
               50 * max_possible_difference + score_difference * 50),
           max_possible_difference)

\* Mutant: the result lists the scores ranked, highest first
\* (dict(sorted(scores.items(), key=..., reverse=True))), and leaves out the
\* categories that scored nothing.
BuildResult_RankedScores(sc) ==
    LET primary_domain == PrimaryDomain(sc)
        sorted_scores == SortedDesc(Values(sc))
        confidence ==
            IF Len(sorted_scores) > 1
            THEN Confidence(sorted_scores[1] - sorted_scores[2])
            ELSE 1000
    IN  [kind |-> "returned",
         domain |-> primary_domain,
         full_name |-> category_names[primary_domain],
         scores |->
             LET Ranked(n) ==
                     CHOOSE i \in 1..Len(sc.items) :
                         Cardinality({j \in 1..Len(sc.items) :
                             \/ sc.items[j][2] > sc.items[i][2]
                             \/ sc.items[j][2] = sc.items[i][2] /\ j < i}) = n - 1
                 Scored(item) == item[2] > 0
             IN  [items |->
                     SelectSeq([n \in 1..Len(sc.items) |-> sc.items[Ranked(n)]],
                               Scored)],
         confidence |-> confidence]

\* Mutant: full_name carries the internal identifier, not the display name.
BuildResult_InternalName(sc) ==
    LET primary_domain == PrimaryDomain(sc)
        sorted_scores == SortedDesc(Values(sc))
        confidence ==
            IF Len(sorted_scores) > 1
            THEN Confidence(sorted_scores[1] - sorted_scores[2])
            ELSE 1000
    IN  [kind |-> "returned",
         domain |-> primary_domain,
         full_name |-> primary_domain,
         scores |-> sc,
         confidence |-> confidence]

\* Lines 221-240: the returned dict, from the final scores.
BuildResult(sc) ==
    LET primary_domain == PrimaryDomain(sc)
        sorted_scores == SortedDesc(Values(sc))
        confidence ==
            IF Len(sorted_scores) > 1
            THEN Confidence(sorted_scores[1] - sorted_scores[2])
            ELSE 1000
    IN  [kind |-> "returned",
         domain |-> primary_domain,
         full_name |-> category_names[primary_domain],
         scores |-> sc,
         confidence |-> confidence]

\* Mutant: only too short a list is refused.
get_cyber_domain_MinLength(resp) ==
    IF Len(resp) < NumQuestions
    THEN LengthError(Len(resp))
    ELSE LET processed == ProcessResponses(resp, 1, InitialScores)
         IN  IF processed.kind = "raised"
             THEN processed
             ELSE BuildResult(processed.scores)

\* Mutant: the letters are examined before the length.
get_cyber_domain_LettersFirst(resp) ==
    LET bad == {i \in 1..Len(resp) : Normalize(resp[i]) \notin ValidAnswers}
        first == CHOOSE i \in bad : \A j \in bad : i <= j
    IN  IF bad # {}
        THEN AnswerError(Normalize(resp[first]), first)
        ELSE IF Len(resp) # NumQuestions
             THEN LengthError(Len(resp))
             ELSE BuildResult(ProcessResponses(resp, 1, InitialScores).scores)

\* Lines 175-240: the whole call.
get_cyber_domain(resp) ==
    IF Len(resp) # NumQuestions
    THEN LengthError(Len(resp))
    ELSE LET processed == ProcessResponses(resp, 1, InitialScores)
         IN  IF processed.kind = "raised"
             THEN processed
             ELSE BuildResult(processed.scores)

\* ----------------------------------------------------------------- inputs

\* The raw answer tokens a caller may pass.
RawTokens ==
    {<<"A">>, <<"B">>, <<"C">>, <<"D">>,
     <<" ", "a">>, <<"c", " ">>, <<"\t", "d", "\n">>, <<"E">>}

Lengths == (NumQuestions - LenSlack)..(NumQuestions + LenSlack)

\* An input of length n: `free` on its first positions, then `odd` and `even`
\* in turn on the odd and even positions that follow.
FamilyInput(n, free, odd, even) ==
    [i \in 1..n |->
        IF i <= Len(free) THEN free[i]
        ELSE IF i % 2 = 1 THEN odd ELSE even]

\* The family's inputs of the given lengths.
FamilyInputs(lengths) ==
    {FamilyInput(n, free, odd, even) :
        n \in lengths, free \in [1..NumFree -> RawTokens],
        odd \in ValidAnswers, even \in ValidAnswers}

\* The inputs of the specification's examples.
ExampleInputs ==
    {<<<<"A">>, <<"B">>, <<"C">>, <<"D">>, <<"E">>,
       <<"A">>, <<"B">>, <<"C">>, <<"D">>, <<"A">>>>,
     <<<<" ", "a">>, <<"B">>, <<"c", " ">>, <<"D">>, <<"a">>,
       <<"b">>, <<"c">>, <<"d">>, <<"a">>, <<"b">>>>,
     <<<<"A">>, <<"B">>, <<"C">>, <<"D">>, <<"A">>,
       <<"B">>, <<"C">>, <<"D">>, <<"A">>, <<"B">>>>,
     <<<<"A">>, <<>>, <<"A", "B">>, <<"A">>, <<"A">>,
       <<"A">>, <<"A">>, <<"A">>, <<"A">>, <<"A">>>>,
     <<<<"A">>, <<"A">>, <<"A">>, <<"A">>, <<"A">>,
       <<"A">>, <<"A">>, <<"A">>, <<"A", " ", "B">>, <<" ">>>>,
     <<<<"A">>, <<"B">>, <<" ", "e">>, <<"A">>, <<"A">>,
       <<"A">>, <<"a", "d", "\t">>, <<"A">>, <<"A">>, <<"E">>>>,
     <<<<"A">>, <<"B">>, <<" ", "e">>, <<"A">>, <<"A">>,
       <<"A">>, <<"a", "d", "\t">>, <<"A">>, <<"A">>>>,
     <<<<"A", "\r">>, <<"\\x0b", "a">>, <<"b", "\f">>, <<"\\x1c", "B">>,
       <<"c", "\\x85">>, <<"\\xa0", "C">>, <<" ", "\f", "b", "\\xa0">>,
       <<"d", "\\u2003">>, <<"\\u3000", "D", "\\u2028">>, <<"a">>>>,
     <<<<"f">>, <<"A">>, <<"A">>, <<"A">>, <<"A">>,
       <<"A">>, <<"A">>, <<"A">>, <<"A">>, <<"z", "\r">>>>,
     <<<<"a">>, <<"\\xe9", " ">>, <<"\\xdf">>, <<"A">>, <<"A">>,
       <<"A">>, <<"A">>, <<"A">>, <<"A">>, <<"A">>>>}

\* The lists a caller may pass: the family's, of the given lengths, and the
\* examples.
Inputs(lengths) == FamilyInputs(lengths) \cup ExampleInputs

\* ------------------------------------------- vocabulary of the properties

\* A token upper-cased and trimmed, stated without the model's strip: the
\* stretch from its first to its last non-whitespace character.
TrimmedUpper(tok) ==
    LET up == upper(tok)
        solid == {i \in 1..Len(up) : up[i] \notin Whitespace}
    IN  IF solid = {}
        THEN <<>>
        ELSE SubSeq(up,
                    CHOOSE i \in solid : \A j \in solid : i <= j,
                    CHOOSE i \in solid : \A j \in solid : i >= j)

ChoiceLetters == {<<"A">>, <<"B">>, <<"C">>, <<"D">>}

\* Ten answers, each one of A, B, C, D once upper-cased and trimmed.
IsValidInput(resp) ==
    /\ Len(resp) = 10
    /\ \A i \in 1..10 : TrimmedUpper(resp[i]) \in ChoiceLetters

\* The fixed declaration order of the categories.
DeclaredOrder == <<"Red Team", "Blue Team", "AppSec", "GRC", "Cloud Security">>

\* A score vector written out in declaration order.
ScoreVector(r, b, a, g, c) ==
    [items |-> <<<<"Red Team", r>>, <<"Blue Team", b>>, <<"AppSec", a>>,
                 <<"GRC", g>>, <<"Cloud Security", c>>>>]

\* The categories a score vector lists.
Listed(sc) == {sc.items[i][1] : i \in 1..Len(sc.items)}

\* The score a score vector gives a category it lists.
Score(sc, cat) ==
    LET at == {i \in 1..Len(sc.items) : sc.items[i][1] = cat}
    IN  sc.items[CHOOSE i \in at : TRUE][2]

Returned == pc = "done" /\ outcome.kind = "returned"

Raised == pc = "done" /\ outcome.kind = "raised"

\* The weight-table entry of question q for the letter chosen in resp.
Weight(resp, q, cat) == SCORING_MATRIX[q][TrimmedUpper(resp[q])][cat]

\* The highest score minus the second highest, duplicates counted.
Gap(sc) ==
    LET all == 1..Len(sc.items)
        top == CHOOSE i \in all : \A j \in all : sc.items[j][2] <= sc.items[i][2]
        others == all \ {top}
        second == CHOOSE i \in others : \A j \in others : sc.items[j][2] <= sc.items[i][2]
    IN  sc.items[top][2] - sc.items[second][2]

AllA == [i \in 1..10 |-> <<"A">>]

AllD == [i \in 1..10 |-> <<"D">>]

\* ------------------------------------------------- engine/market_intel.py

\* Lines 48-169: the trends per domain, as _simulate_scraping holds them.
MARKET_DATA ==
    "Red Team" :>
        [trending_skills |->
            <<"AI-driven social engineering",
              "EDR evasion techniques",
              "Autonomous SOC bypass",
              "Cloud infrastructure penetration testing",
              "API security exploitation",
              "Container escape techniques",
              "Zero-day discovery and exploitation",
              "Advanced persistent threat (APT) simulation",
              "AI/ML model adversarial attacks",
              "Supply chain attack vectors">>,
         certifications |->
            <<"CompTIA Security+ (SY0-701)",
              "CEH AI (Certified Ethical Hacker - AI Edition)",
              "OSCP (Offensive Security Certified Professional)",
              "OSEP (Offensive Security Experienced Penetration Tester)",
              "GPEN (GIAC Penetration Tester)",
              "GXPN (GIAC Exploit Researcher and Advanced Penetration Tester)",
              "CRTP (Certified Red Team Professional)",
              "CRTE (Certified Red Team Expert)">>]
    @@ "Blue Team" :>
        [trending_skills |->
            <<"AI-powered threat detection",
              "SOAR (Security Orchestration, Automation, and Response)",
              "Extended Detection and Response (XDR)",
              "Zero Trust architecture implementation",
              "Threat hunting with ML models",
              "Cloud security monitoring",
              "Container security operations",
              "Incident response automation",
              "Behavioral analytics",
              "Security information and event management (SIEM) optimization">>,
         certifications |->
            <<"CompTIA Security+ (SY0-701)",
              "GCIH (GIAC Certified Incident Handler)",
              "GSEC (GIAC Security Essentials)",
              "GCFA (GIAC Certified Forensic Analyst)",
              "SANS SEC503 (Intrusion Detection In-Depth)",
              "CISSP (Certified Information Systems Security Professional)",
              "CySA+ (CompTIA Cybersecurity Analyst)",
              "SSCP (Systems Security Certified Practitioner)">>]
    @@ "AppSec" :>
        [trending_skills |->
            <<"Secure coding practices (OWASP Top 10 2026)",
              "API security testing and hardening",
              "DevSecOps pipeline integration",
              "Container and Kubernetes security",
              "AI/ML application security",
              "Software composition analysis (SCA)",
              "Static and dynamic application security testing (SAST/DAST)",
              "Infrastructure as Code (IaC) security",
              "Mobile application security",
              "Serverless security architecture">>,
         certifications |->
            <<"CompTIA Security+ (SY0-701)",
              "GWEB (GIAC Web Application Penetration Tester)",
              "GMOB (GIAC Mobile Device Security Analyst)",
              "CSSLP (Certified Secure Software Lifecycle Professional)",
              "CEH AI (Certified Ethical Hacker - AI Edition)",
              "OWASP certifications",
              "SANS SEC542 (Web App Penetration Testing)",
              "CASS (Certified Application Security Specialist)">>]
    @@ "GRC" :>
        [trending_skills |->
            <<"AI governance and compliance",
              "Zero Trust compliance frameworks",
              "Cloud compliance (SOC 2, ISO 27001, FedRAMP)",
              "Privacy regulations (GDPR, CCPA, emerging 2026 standards)",
              "Risk quantification and modeling",
              "Third-party risk management",
              "Security audit automation",
              "Regulatory technology (RegTech)",
              "ESG (Environmental, Social, Governance) security compliance",
              "Quantum computing risk assessment">>,
         certifications |->
            <<"CompTIA Security+ (SY0-701)",
              "CISSP (Certified Information Systems Security Professional)",
              "CISM (Certified Information Security Manager)",
              "CISA (Certified Information Systems Auditor)",
              "CRISC (Certified in Risk and Information Systems Control)",
              "CGEIT (Certified in the Governance of Enterprise IT)",
              "ISO 27001 Lead Auditor",
              "GRCP (Governance, Risk, and Compliance Professional)">>]
    @@ "Cloud Security" :>
        [trending_skills |->
            <<"Multi-cloud security architecture",
              "Cloud-native security (Kubernetes, containers)",
              "Serverless security",
              "Cloud security posture management (CSPM)",
              "Identity and access management (IAM) for cloud",
              "Cloud workload protection",
              "Infrastructure as Code (IaC) security scanning",
              "Cloud data loss prevention (DLP)",
              "Zero Trust cloud implementation",
              "AI/ML cloud security monitoring">>,
         certifications |->
            <<"CompTIA Security+ (SY0-701)",
              "AWS Certified Security - Specialty",
              "Microsoft Certified: Azure Security Engineer Associate",
              "Google Cloud Professional Cloud Security Engineer",
              "CCSP (Certified Cloud Security Professional)",
              "CISSP (Certified Information Systems Security Professional)",
              "SANS GCSA (GIAC Cloud Security Automation)",
              "Cloud Security Alliance (CSA) certifications">>]

\* Lines 172-175: the trends of a domain the dict does not hold.
DefaultMarketData ==
    [trending_skills |->
        <<"General cybersecurity skills", "Threat analysis",
          "Security fundamentals">>,
     certifications |->
        <<"CompTIA Security+ (SY0-701)", "CISSP",
          "General security certifications">>]

\* _simulate_scraping(domain): market_data.get(domain, default).
simulate_scraping(domain) ==
    IF domain \in DOMAIN MARKET_DATA
    THEN MARKET_DATA[domain]
    ELSE DefaultMarketData

\* pd.DataFrame({'Rank': 1..n, name_col: names, label_col: label}): a table of
\* n rows, the label repeated on every row.
DataFrame(name_col, names, label_col, label) ==
    [type |-> "DataFrame",
     columns |-> <<"Rank", name_col, label_col>>,
     rows |-> [i \in 1..Len(names) |->
                  ("Rank" :> i) @@ (name_col :> names[i])
                      @@ (label_col :> label)]]

\* Mutant: the failure of the try block reaches the caller.
fetch_market_trends_Propagates(domain, fault) ==
    IF fault
    THEN [kind |-> "raised", exc |-> "Exception",
          msg |-> <<"market data unavailable">>]
    ELSE LET response_data == simulate_scraping(domain)
         IN  [trending_skills |->
                  DataFrame("Trending Skill", response_data.trending_skills,
                            "Category", "2026 Market Trend"),
              certifications |->
                  DataFrame("Certification", response_data.certifications,
                            "Year", "2026 Standard")]

\* Lines 221-233: the tables returned when the try block raised.
FallbackTrends ==
    [trending_skills |->
        DataFrame("Trending Skill",
                  <<"General Security Skills", "Threat Analysis",
                    "Security Fundamentals">>,
                  "Category", "2026 Market Trend"),
     certifications |->
        DataFrame("Certification",
                  <<"CompTIA Security+ (SY0-701)", "CISSP",
                    "General Security Certifications">>,
                  "Year", "2026 Standard")]

\* fetch_market_trends(domain).  `fault` says that the try block (lines
\* 197-217) raised an Exception, as it does for an unhashable domain.
fetch_market_trends(domain, fault) ==
    IF fault
    THEN FallbackTrends
    ELSE LET response_data == simulate_scraping(domain)
         IN  [trending_skills |->
                  DataFrame("Trending Skill", response_data.trending_skills,
                            "Category", "2026 Market Trend"),
              certifications |->
                  DataFrame("Certification", response_data.certifications,
                            "Year", "2026 Standard")]

\* -------------------------------------------------- engine/roadmap_gen.py

\* A raised exception: its class and str(e), the message in pieces.
Error(exc, msg) == [kind |-> "raised", exc |-> exc, msg |-> msg]

\* The first n items of a list: items[:n].
FirstItems(items, n) == SubSeq(items, 1, Min(n, Len(items)))

\* ---------------------------------------- the body of a provider's answer

\* A value response.json() can return (lines 75 and 149), tagged with the
\* name of its Python type.  A str is the sequence of its characters, a float
\* its repr, a dict the sequence of its <<key, value>> pairs in the order of
\* the body, the keys distinct.
JNull == [type |-> "NoneType", value |-> "None"]

JBool(b) == [type |-> "bool", value |-> b]

JInt(n) == [type |-> "int", value |-> n]

JFloat(repr) == [type |-> "float", value |-> repr]

JStr(chars) == [type |-> "str", value |-> chars]

JList(items) == [type |-> "list", value |-> items]

JDict(pairs) == [type |-> "dict", value |-> pairs]

\* An expression that evaluated to a value, as opposed to one that raised.
Val(v) == [kind |-> "value", value |-> v]

\* The characters of the keys the two provider functions look up.
KeyChars ==
    [candidates |-> <<"c", "a", "n", "d", "i", "d", "a", "t", "e", "s">>,
     content |-> <<"c", "o", "n", "t", "e", "n", "t">>,
     parts |-> <<"p", "a", "r", "t", "s">>,
     text |-> <<"t", "e", "x", "t">>,
     error |-> <<"e", "r", "r", "o", "r">>,
     message |-> <<"m", "e", "s", "s", "a", "g", "e">>,
     choices |-> <<"c", "h", "o", "i", "c", "e", "s">>]

\* Whether the dict with these pairs has the key.
HasKey(pairs, key) == \E i \in 1..Len(pairs) : pairs[i][1] = key

\* pairs[key] of a dict that has the key.
ValueOf(pairs, key) ==
    pairs[CHOOSE i \in 1..Len(pairs) : pairs[i][1] = key][2]

\* Whether the characters `part` occur in `whole`, one after the other.
IsSubstring(part, whole) ==
    \E i \in 0..(Len(whole) - Len(part)) :
        SubSeq(whole, i + 1, i + Len(part)) = part

\* Python's `key in v` for a str key: a key of a dict, an item of a list, a
\* substring of a str; a value of any other type is not iterable.
In(key, v) ==
    CASE v.type = "dict" -> Val(HasKey(v.value, key))
      [] v.type = "list" ->
             Val(\E i \in 1..Len(v.value) : v.value[i] = JStr(KeyChars[key]))
      [] v.type = "str" -> Val(IsSubstring(KeyChars[key], v.value))
      [] OTHER ->
             Error("TypeError",
                   <<"argument of type '", v.type, "' is not iterable">>)

\* Python's len(v).
PyLen(v) ==
    IF v.type \in {"dict", "list", "str"}
    THEN Val(Len(v.value))
    ELSE Error("TypeError", <<"object of type '", v.type, "' has no len()">>)

\* Python's v[key] for a str key.
GetItem(v, key) ==
    CASE v.type = "dict" ->
             IF HasKey(v.value, key)
             THEN Val(ValueOf(v.value, key))
             ELSE Error("KeyError", <<"'", key, "'">>)
      [] v.type = "list" ->
             Error("TypeError",
                   <<"list indices must be integers or slices, ", "not str">>)
      [] v.type = "str" ->
             Error("TypeError",
                   <<"string indices must be integers, not 'str'">>)
      [] OTHER ->
             Error("TypeError", <<"'", v.type, "' object is not subscriptable">>)

\* Python's v[0]: the first item of a list, the first character of a str; a
\* dict of a JSON body has no key 0, its keys being strings.
GetFirst(v) ==
    CASE v.type = "list" ->
             IF v.value # <<>>
             THEN Val(v.value[1])
             ELSE Error("IndexError", <<"list index out of range">>)
      [] v.type = "str" ->
             IF v.value # <<>>
             THEN Val(JStr(<<v.value[1]>>))
             ELSE Error("IndexError", <<"string index out of range">>)
      [] v.type = "dict" -> Error("KeyError", <<"0">>)
      [] OTHER ->
             Error("TypeError", <<"'", v.type, "' object is not subscriptable">>)

\* Python's v.get(key, default): only a dict has the method.
Get(v, key, default) ==
    IF v.type = "dict"
    THEN Val(IF HasKey(v.value, key) THEN ValueOf(v.value, key) ELSE default)
    ELSE Error("AttributeError",
               <<"'", v.type, "' object has no attribute 'get'">>)

RECURSIVE PyRepr(_)
\* The pieces of Python's repr(v).  A str is written between single quotes,
\* which is its repr when it holds printable ASCII characters other than the
\* quote and the backslash.
PyRepr(v) ==
    LET RECURSIVE Joined(_, _)
        Joined(items, i) ==
            IF i > Len(items) THEN <<>>
            ELSE (IF i > 1 THEN <<", ">> ELSE <<>>)
                 \o PyRepr(items[i]) \o Joined(items, i + 1)
        RECURSIVE JoinedPairs(_, _)
        JoinedPairs(pairs, i) ==
            IF i > Len(pairs) THEN <<>>
            ELSE (IF i > 1 THEN <<", ">> ELSE <<>>)
                 \o <<"'", pairs[i][1], "'", ": ">> \o PyRepr(pairs[i][2])
                 \o JoinedPairs(pairs, i + 1)
    IN  CASE v.type = "NoneType" -> <<"None">>
          [] v.type = "bool" -> IF v.value THEN <<"True">> ELSE <<"False">>
          [] v.type = "int" -> <<ToString(v.value)>>
          [] v.type = "float" -> <<v.value>>
          [] v.type = "str" -> <<"'">> \o v.value \o <<"'">>
          [] v.type = "list" -> <<"[">> \o Joined(v.value, 1) \o <<"]">>
          [] v.type = "dict" -> <<"{">> \o JoinedPairs(v.value, 1) \o <<"}">>

\* The pieces of Python's str(v), which an f-string inserts: the characters of
\* a str, the repr of anything else.
PyStr(v) == IF v.type = "str" THEN v.value ELSE PyRepr(v)

\* Lines 77-84: what _generate_with_gemini makes of the body `result`, each
\* subexpression evaluated in Python's order, `and` skipping its right side
\* when the left is false.
read_gemini(result) ==
    LET has_candidates == In("candidates", result)
        candidates == GetItem(result, "candidates")
        count == PyLen(candidates.value)
        candidate == GetFirst(candidates.value)
        has_content == In("content", candidate.value)
        content == GetItem(candidate.value, "content")
        has_parts == In("parts", content.value)
        parts == GetItem(content.value, "parts")
        part == GetFirst(parts.value)
        text == GetItem(part.value, "text")
        error == Get(result, "error", JDict(<<>>))
        error_msg == Get(error.value, "message",
                         JStr(<<"U", "n", "k", "n", "o", "w", "n", " ",
                                "e", "r", "r", "o", "r">>))
        NoCandidates ==
            IF error.kind = "raised" THEN error
            ELSE IF error_msg.kind = "raised" THEN error_msg
            ELSE Error("ValueError",
                       <<"Gemini API error: ">> \o PyStr(error_msg.value))
        BadFormat ==
            Error("ValueError", <<"Unexpected response format from Gemini API">>)
    IN  IF has_candidates.kind = "raised" THEN has_candidates
        ELSE IF ~has_candidates.value THEN NoCandidates
        ELSE IF candidates.kind = "raised" THEN candidates
        ELSE IF count.kind = "raised" THEN count
        ELSE IF ~(count.value > 0) THEN NoCandidates
        ELSE IF candidate.kind = "raised" THEN candidate
        ELSE IF has_content.kind = "raised" THEN has_content
        ELSE IF ~has_content.value THEN BadFormat
        ELSE IF content.kind = "raised" THEN content
        ELSE IF has_parts.kind = "raised" THEN has_parts
        ELSE IF ~has_parts.value THEN BadFormat
        ELSE IF parts.kind = "raised" THEN parts
        ELSE IF part.kind = "raised" THEN part
        ELSE text

\* Lines 151-154: what _generate_with_openai makes of the body `result`.
read_openai(result) ==
    LET has_choices == In("choices", result)
        choices == GetItem(result, "choices")
        count == PyLen(choices.value)
        choice == GetFirst(choices.value)
        message == GetItem(choice.value, "message")
        content == GetItem(message.value, "content")
        BadFormat ==
            Error("ValueError", <<"Unexpected response format from OpenAI API">>)
    IN  IF has_choices.kind = "raised" THEN has_choices
        ELSE IF ~has_choices.value THEN BadFormat
        ELSE IF choices.kind = "raised" THEN choices
        ELSE IF count.kind = "raised" THEN count
        ELSE IF ~(count.value > 0) THEN BadFormat
        ELSE IF choice.kind = "raised" THEN choice
        ELSE IF message.kind = "raised" THEN message
        ELSE content

\* A roadmap text as a provider might write it.
SampleText == <<"#", " ", "P", "l", "a", "n">>

\* Values of every JSON type, the empty and the non-empty ones.
Scalars ==
    {JNull, JBool(TRUE), JInt(5), JFloat("1.5"), JStr(<<>>),
     JStr(<<"a", "b", "c">>), JList(<<>>), JDict(<<>>),
     JDict(<< <<"a", JInt(1)>> >>)}

\* What stands where the provider puts its text: a text, the empty text, and
\* values that are no text.
Texts == {JStr(SampleText), JStr(<<>>), JNull, JInt(5)}

\* Values to stand where an object with the key is expected: the scalars, and
\* the str and the list in which `key in value` holds as well.
Misfits(key) == Scalars \cup {JStr(KeyChars[key]), JList(<<JStr(KeyChars[key])>>)}

\* The object {key: value}.
Object(key, value) == JDict(<< <<key, value>> >>)

\* Bodies around the structure _generate_with_gemini expects,
\* {"candidates": [{"content": {"parts": [{"text": ...}]}}]}, and around the
\* error object it reads otherwise: at each level in turn the value is
\* replaced by a misfit.
GeminiBodies ==
    LET texts == Texts
        part == Misfits("text") \cup {Object("text", t) : t \in texts}
        parts == Scalars \cup {JList(<<p>>) : p \in part}
                     \cup {Object("text", JStr(SampleText))}
        content == Misfits("parts") \cup {Object("parts", p) : p \in parts}
        candidate ==
            Misfits("content") \cup {Object("content", c) : c \in content}
        candidates == Scalars \cup {JList(<<c>>) : c \in candidate}
        messages == Scalars \cup {JStr(<<"q", "u", "o", "t", "a">>)}
        errors == Scalars \cup {Object("message", m) : m \in messages}
    IN  Misfits("candidates")
            \cup {Object("candidates", c) : c \in candidates}
            \cup {Object("error", e) : e \in errors}
            \cup {JDict(<< <<"candidates", JList(<<>>)>>, <<"error", e>> >>) :
                     e \in {Object("message", JStr(<<"q", "u", "o", "t", "a">>)),
                            JNull}}

\* Bodies around the structure _generate_with_openai expects,
\* {"choices": [{"message": {"content": ...}}]}.
OpenAIBodies ==
    LET texts == Texts
        message == Misfits("content") \cup {Object("content", t) : t \in texts}
        choice == Misfits("message") \cup {Object("message", m) : m \in message}
        choices == Scalars \cup {JList(<<c>>) : c \in choice}
    IN  Misfits("choices") \cup {Object("choices", c) : c \in choices}

\* How the provider's HTTP exchange can end (lines 72-75 and 146-149):
\*   no_response   requests.post raises a RequestException: no connection, or
\*                 the timeout of 60 s (Gemini) or 30 s (OpenAI) passes
\*   error_status  raise_for_status raises the HTTPError of a 4xx or 5xx
\*   undecodable   the body of a 200 answer is not JSON: response.json()
\*                 raises requests' JSONDecodeError, a RequestException, from
\*                 requests 2.27 on, and json's JSONDecodeError, a ValueError,
\*                 before; the repository pins no version
\*   body          a 200 answer with a JSON body
Replies ==
    [exchange : {"no_response", "error_status"}, body : {JNull},
     requests_error : {TRUE}]
        \cup [exchange : {"undecodable"}, body : {JNull},
              requests_error : BOOLEAN]
        \cup [exchange : {"body"}, body : GeminiBodies \cup OpenAIBodies,
              requests_error : {FALSE}]

\* Lines 37-38 and 107-108: market_data[key], looked up for both keys before
\* either value is sliced.
MarketValue(market_data, key) ==
    IF key \notin DOMAIN market_data
    THEN Error("KeyError", <<"'", key, "'">>)
    ELSE [kind |-> "value", value |-> market_data[key]]

\* Lines 41-42 and 111-112: the skill or certification lines of the prompt.
\* No value passes the hasattr(..., 'tolist') test (a DataFrame has no tolist),
\* so the value itself is sliced and iterated: a DataFrame yields its column
\* names, a list its items, and a dict cannot be sliced.
PromptLines(value, n) ==
    CASE value.type = "DataFrame" ->
             [kind |-> "lines", lines |-> value.columns]
      [] value.type = "list" ->
             [kind |-> "lines", lines |-> FirstItems(value.items, n)]
      [] value.type = "dict" ->
             Error("TypeError", <<"unhashable type: 'slice'">>)

\* Lines 32-49 and 102-119: the key check and the prompt, shared by the two
\* provider functions: the key, the two lookups, the two slices.
BuildPrompt(key_set, key_name, domain, market_data, prompt_template) ==
    LET skills_list == MarketValue(market_data, "trending_skills")
        certs_list == MarketValue(market_data, "certifications")
        skills == PromptLines(skills_list.value, 10)
        certs == PromptLines(certs_list.value, 8)
    IN  IF ~key_set
        THEN Error("ValueError",
                   <<key_name, " not found in environment variables">>)
        ELSE IF skills_list.kind = "raised" THEN skills_list
        ELSE IF certs_list.kind = "raised" THEN certs_list
        ELSE IF skills.kind = "raised" THEN skills
        ELSE IF certs.kind = "raised" THEN certs
        ELSE [kind |-> "prompt",
              template |-> prompt_template,
              domain |-> domain,
              skills |-> skills.lines,
              certifications |-> certs.lines]

\* What a provider function returns: the value it found in the body, as it
\* is, whatever its type (lines 79 and 152).
ProviderReturn(provider, value) ==
    [kind |-> "returned", by |-> provider, value |-> value]

\* Lines 71-87 and 145-157: from requests.post to the end of the provider
\* function `provider`, named `api` in its messages, reading the body with
\* `read`.  Only a RequestException is rewrapped (lines 86-87 and 156-157);
\* what the reading of the body raises leaves the function as it is.
ProviderResponse(provider, api, reply, read) ==
    CASE reply.exchange = "no_response" ->
             Error("Exception",
                   <<"Error calling ", api, " API: ", "request failed">>)
      [] reply.exchange = "error_status" ->
             Error("Exception",
                   <<"Error calling ", api, " API: ", "HTTP error">>)
      [] reply.exchange = "undecodable" ->
             IF reply.requests_error
             THEN Error("Exception",
                        <<"Error calling ", api, " API: ", "Expecting value">>)
             ELSE Error("JSONDecodeError", <<"Expecting value">>)
      [] reply.exchange = "body" ->
             IF read.kind = "raised"
             THEN read
             ELSE ProviderReturn(provider, read.value)

\* Lines 32-70: _generate_with_gemini up to the request: the prompt to post,
\* or what the key check, the lookups or the slices raise.
gemini_request(keys, domain, market_data, prompt_template) ==
    BuildPrompt(keys.GEMINI_API_KEY, "GEMINI_API_KEY", domain, market_data,
                prompt_template)

\* Lines 71-87: _generate_with_gemini from the request on.
gemini_response(reply) ==
    ProviderResponse("gemini", "Gemini", reply, read_gemini(reply.body))

\* The arguments st.cache_data keys an entry on.
CacheKey(domain, market_data, prompt_template) ==
    [domain |-> domain, market_data |-> market_data,
     prompt_template |-> prompt_template]

\* Line 18: @st.cache_data(ttl=3600) around _generate_with_gemini.  The cache
\* maps the arguments of earlier calls that returned, and have not lapsed, to
\* what they returned.  What it does with the result of a run of the function:
\* a returned value is stored under the key of the call, in place of any entry
\* made since the call began; an exception is not stored.
CacheAfter(cache, key, result) ==
    IF result.kind = "returned"
    THEN [k \in DOMAIN cache \cup {key} |->
             IF k = key THEN result ELSE cache[k]]
    ELSE cache

\* Lines 102-144: _generate_with_openai up to the request.
openai_request(keys, domain, market_data, prompt_template) ==
    BuildPrompt(keys.OPENAI_API_KEY, "OPENAI_API_KEY", domain, market_data,
                prompt_template)

\* Lines 145-157: _generate_with_openai, which no cache wraps, from the
\* request on.
openai_response(reply) ==
    ProviderResponse("openai", "OpenAI", reply, read_openai(reply.body))

\* Lines 322-330: the skills or certifications the template roadmap lists.
TemplateItems(market_data, key, column, n) ==
    IF key \notin DOMAIN market_data
    THEN Error("KeyError", <<"'", key, "'">>)
    ELSE LET value == market_data[key]
         IN  CASE value.type = "dict" ->
                      [kind |-> "items",
                       items |-> IF value.items = <<>>
                                 THEN <<>>
                                 ELSE value.items[1]]
               [] value.type = "DataFrame" ->
                      IF \E i \in 1..Len(value.columns) :
                             value.columns[i] = column
                      THEN [kind |-> "items",
                            items |-> FirstItems(
                                [i \in 1..Len(value.rows) |->
                                    value.rows[i][column]], n)]
                      ELSE Error("KeyError", <<"'", column, "'">>)
               [] value.type = "list" ->
                      Error("TypeError",
                            <<"list indices must be integers or slices, ",
                              "not str">>)

\* Lines 310-503: _generate_fallback_roadmap, the roadmap built from the
\* templates: its heading and the skills and certifications it lists.
generate_fallback_roadmap(domain, market_data) ==
    LET skills == TemplateItems(market_data, "trending_skills",
                                "Trending Skill", 10)
    IN  IF skills.kind = "raised"
        THEN skills
        ELSE LET certs == TemplateItems(market_data, "certifications",
                                        "Certification", 8)
             IN  IF certs.kind = "raised"
                 THEN certs
                 ELSE [kind |-> "returned",
                       by |-> "template",
                       heading |->
                           IF domain = "Red Team"
                           THEN <<"# 6-Month Offensive Security (Red Team) ",
                                  "Roadmap">>
                           ELSE <<"# 6-Month ", domain, " Learning Roadmap">>,
                       skills |-> FirstItems(skills.items, 10),
                       certifications |-> FirstItems(certs.items, 8)]

\* Lines 288-291: the prompt template chosen for the domain.
PromptTemplate(domain) ==
    IF domain = "Red Team" THEN "red team" ELSE "generic"

\* The entry of one generator invocation in the history: which generator, and
\* the message of the exception if it raised.
Attempt(generator, result) ==
    [generator |-> generator,
     raised |-> result.kind = "raised",
     error |-> IF result.kind = "raised" THEN result.msg ELSE <<>>]

\* None as the value of results, market_data or roadmap, and where a record
\* has nothing to hold.
None == [kind |-> "none"]

\* Lines 295-299: the generator the environment selects.
Generator(keys) ==
    IF keys.GEMINI_API_KEY THEN "gemini"
    ELSE IF keys.OPENAI_API_KEY THEN "openai"
    ELSE "template"

\* Lines 288-301, up to the provider's request: generate_roadmap(domain,
\* market_data) under the environment `keys` and the Gemini cache `cache`.
\* Either the selected generator ends without a request (the template; a hit
\* in the Gemini cache, which returns the stored value and does not run the
\* function; a prompt that cannot be built) and `first` is what it returned
\* or raised, or `prompt` is posted and the call waits in requests.post.  `key`
\* is the cache key, taken from the arguments as they are when the call
\* begins.
roadmap_begin(cache, keys, domain, market_data) ==
    LET prompt_template == PromptTemplate(domain)
        generator == Generator(keys)
        key == CacheKey(domain, market_data, prompt_template)
        request ==
            IF generator = "gemini"
            THEN gemini_request(keys, domain, market_data, prompt_template)
            ELSE openai_request(keys, domain, market_data, prompt_template)
        first ==
            CASE generator = "template" ->
                     generate_fallback_roadmap(domain, market_data)
              [] generator = "gemini" /\ key \in DOMAIN cache -> cache[key]
              [] OTHER -> IF request.kind = "raised" THEN request ELSE None
    IN  [generator |-> generator,
         key |-> key,
         hit |-> generator = "gemini" /\ key \in DOMAIN cache,
         posted |-> first = None,
         prompt |-> IF first = None THEN request ELSE None,
         first |-> first]

\* Lines 71-87 and 145-157: the selected provider function from its request
\* on, the exchange ending as `reply`.
provider_response(generator, reply) ==
    IF generator = "gemini" THEN gemini_response(reply)
    ELSE openai_response(reply)

\* Mutant: a failed generator is final; the template roadmap is not tried.
except_fallback_NoFallback(generator, first, domain, market_data) ==
    [outcome |->
         Error("Exception", <<"Failed to generate roadmap: ">> \o first.msg),
     attempts |-> <<Attempt(generator, first)>>]

\* Lines 302-307: the except branch of generate_roadmap, entered with the
\* exception `first` of the selected generator: the template roadmap, built
\* from market_data as it is now.
except_fallback(generator, first, domain, market_data) ==
    LET fallback == generate_fallback_roadmap(domain, market_data)
    IN  [outcome |->
             IF fallback.kind = "returned"
             THEN fallback
             ELSE Error("Exception",
                        <<"Failed to generate roadmap: ">> \o first.msg),
         attempts |-> <<Attempt(generator, first), Attempt("template", fallback)>>]

\* Lines 18 and 296-307, from the end of the selected generator on: `first`
\* is what it returned or raised, `hit` whether the cache answered.  What
\* generate_roadmap returns or raises, the generators it invoked, and the
\* cache it leaves.
roadmap_end(begun, first, cache, domain, market_data) ==
    LET after ==
            IF begun.generator = "gemini" /\ ~begun.hit
            THEN CacheAfter(cache, begun.key, first)
            ELSE cache
        except == except_fallback(begun.generator, first, domain, market_data)
    IN  IF first.kind = "returned"
        THEN [outcome |-> first,
              attempts |-> <<Attempt(begun.generator, first)>>,
              cache |-> after]
        ELSE [outcome |-> except.outcome,
              attempts |-> except.attempts,
              cache |-> after]

\* ------------------------------------------------------------------ app.py

\* list(question_data['options'].keys()), the same for every question.
QuestionOptions == <<<<"A">>, <<"B">>, <<"C">>, <<"D">>>>

\* None as an entry of st.session_state.responses.
NoAnswer == <<"None">>

\* Lines 24-46: the session state of a new session.
InitialSession ==
    [current_question |-> 1,
     responses |-> [i \in 1..NumQuestions |-> NoAnswer],
     quiz_complete |-> FALSE,
     results |-> None,
     market_data |-> None,
     roadmap |-> None,
     roadmap_generated |-> FALSE,
     selected_page |-> "Career Navigator"]

\* Lines 176-191, 267: the script run shows the quiz interface.
InQuiz ==
    /\ session.selected_page = "Career Navigator"
    /\ ~(session.quiz_complete /\ session.results # None)

\* The options the user clicks on question q: any of the four on the first
\* NumOpen questions, and on the later questions A or D, the same letter on
\* all of them.
UserChoices(q) ==
    IF q <= NumOpen
    THEN {QuestionOptions[i] : i \in 1..Len(QuestionOptions)}
    ELSE {letter \in {<<"A">>, <<"D">>} :
             \A i \in (NumOpen + 1)..NumQuestions :
                 i # q => session.responses[i] \in {NoAnswer, letter}}

\* Lines 191, 218-265: the script run shows the results page with its buttons.
OnResults ==
    /\ session.selected_page = "Career Navigator"
    /\ session.quiz_complete
    /\ session.results # None

\* A call that raised, as the app's try blocks see it.
IsRaised(result) == "kind" \in DOMAIN result /\ result.kind = "raised"

\* The value a call returned, as the assignment of line 231 stores it: the
\* JSON null a provider returned is None.
ReturnValue(result) ==
    IF "value" \in DOMAIN result /\ result.value = JNull
    THEN None
    ELSE result

\* No script run of the session is under way.
Idle == [at |-> "idle", call |-> None]

\* Mutant: quiz_complete is written together with results.
StoreResults_CompletesFirst(sess, results) ==
    IF IsRaised(results)
    THEN sess
    ELSE [sess EXCEPT !.results = results, !.quiz_complete = TRUE]

\* Lines 306-307: `results` being what get_cyber_domain returned or raised,
\* the session after the assignment, which an exception skips.
StoreResults(sess, results) ==
    IF IsRaised(results)
    THEN sess
    ELSE [sess EXCEPT !.results = results]

\* Lines 311-312: `market_data` being what fetch_market_trends returned or
\* raised, the session after the assignment.
StoreMarketData(sess, market_data) ==
    IF IsRaised(market_data)
    THEN sess
    ELSE [sess EXCEPT !.market_data = market_data]

\* Lines 228-236: `roadmap` being what generate_roadmap returned or raised,
\* the session after the two assignments.
StoreRoadmap(sess, roadmap) ==
    IF IsRaised(roadmap)
    THEN sess
    ELSE [sess EXCEPT !.roadmap = ReturnValue(roadmap),
                      !.roadmap_generated = TRUE]

\* ---------------------------------------------------------- specification

NoOutcome == [kind |-> "none"]

\* Spec: the caller holds a whole list and calls get_cyber_domain on it.
Init ==
    /\ scoring_matrix = SCORING_MATRIX
    /\ category_names = CATEGORY_NAMES
    /\ responses \in Inputs(Lengths)
    /\ num_responses = Len(responses)
    /\ pc = "ready"
    /\ question_num = 0
    /\ scores = InitialScores
    /\ outcome = NoOutcome
    /\ valid_input = IsValidInput(responses)
    /\ ThreadsIdle
    /\ LogIdle
    /\ OuterIdle

\* One call get_cyber_domain(responses), start to finish.
Call ==
    /\ pc = "ready"
    /\ outcome' = get_cyber_domain(responses)
    /\ pc' = "done"
    /\ UNCHANGED <<scoring_matrix, category_names, responses, num_responses, question_num,
                   scores, valid_input>>

Next == Call /\ UNCHANGED <<thread_vars, log_vars, outer_vars>>

Spec == Init /\ [][Next]_vars

\* SpecLoop: the same call taken one loop iteration at a time.  The list is
\* supplied answer by answer as the loop reads it; only its length is fixed
\* beforehand, and `responses` is not kept.  Every list over RawTokens of a
\* length in Lengths is covered this way.
LoopInit ==
    /\ scoring_matrix = SCORING_MATRIX
    /\ category_names = CATEGORY_NAMES
    /\ responses = <<>>
    /\ num_responses \in Lengths
    /\ pc = "ready"
    /\ question_num = 0
    /\ scores = InitialScores
    /\ outcome = NoOutcome
    /\ valid_input = (num_responses = 10)
    /\ ThreadsIdle
    /\ LogIdle
    /\ OuterIdle

\* Mutant: the score dict is created once, when the module is loaded, and
\* every call goes on adding to it.
Enter_KeepsScores ==
    /\ pc = "ready"
    /\ IF num_responses # NumQuestions
       THEN /\ outcome' = LengthError(num_responses)
            /\ pc' = "done"
            /\ UNCHANGED <<question_num, scores>>
       ELSE /\ question_num' = 1
            /\ pc' = "loop"
            /\ UNCHANGED <<outcome, scores>>
    /\ UNCHANGED <<scoring_matrix, category_names, responses, num_responses, valid_input>>

\* Lines 193-204: the length check, then the fresh score dict.
Enter ==
    /\ pc = "ready"
    /\ IF num_responses # NumQuestions
       THEN /\ outcome' = LengthError(num_responses)
            /\ pc' = "done"
            /\ UNCHANGED <<question_num, scores>>
       ELSE /\ scores' = InitialScores
            /\ question_num' = 1
            /\ pc' = "loop"
            /\ UNCHANGED outcome
    /\ UNCHANGED <<scoring_matrix, category_names, responses, num_responses, valid_input>>

\* Mutant: an invalid answer is skipped instead of raising.
Iterate_SkipInvalid(tok) ==
    /\ pc = "loop"
    /\ question_num <= num_responses
    /\ valid_input' = (valid_input /\ TrimmedUpper(tok) \in ChoiceLetters)
    /\ LET answer == Normalize(tok)
       IN  scores' = IF answer \notin ValidAnswers
                     THEN scores
                     ELSE AddAnswerScores(scores, question_num, answer)
    /\ question_num' = question_num + 1
    /\ UNCHANGED <<pc, outcome>>
    /\ UNCHANGED <<scoring_matrix, category_names, responses, num_responses>>

\* Mutant: the normalised answer is written back into the caller's list
\* (responses[question_num - 1] = answer.upper().strip()).
Iterate_WritesBack(tok) ==
    /\ pc = "loop"
    /\ question_num <= num_responses
    /\ valid_input' = (valid_input /\ TrimmedUpper(tok) \in ChoiceLetters)
    /\ LET answer == Normalize(tok)
       IN  /\ responses' =
                  [i \in DOMAIN responses |->
                      IF i = question_num THEN answer ELSE responses[i]]
           /\ IF answer \notin ValidAnswers
              THEN /\ outcome' = AnswerError(answer, question_num)
                   /\ pc' = "done"
                   /\ scores' = InitialScores
                   /\ question_num' = 0
              ELSE IF HasRaised(AddAnswerScores(scores, question_num, answer))
              THEN /\ outcome' = AddAnswerScores(scores, question_num, answer)
                   /\ pc' = "done"
                   /\ scores' = InitialScores
                   /\ question_num' = 0
              ELSE /\ scores' = AddAnswerScores(scores, question_num, answer)
                   /\ question_num' = question_num + 1
                   /\ UNCHANGED <<pc, outcome>>
    /\ UNCHANGED <<scoring_matrix, category_names, num_responses>>

\* Lines 207-219: one iteration of the loop, on the raw answer `tok`: line 209
\* rebinds the loop's own `answer`, line 219 stores into the call's dict.  A
\* raise ends the call and drops its locals.
Iterate(tok) ==
    /\ pc = "loop"
    /\ question_num <= num_responses
    /\ valid_input' = (valid_input /\ TrimmedUpper(tok) \in ChoiceLetters)
    /\ LET answer == Normalize(tok)
       IN  IF answer \notin ValidAnswers
           THEN /\ outcome' = AnswerError(answer, question_num)
                /\ pc' = "done"
                /\ scores' = InitialScores
                /\ question_num' = 0
           ELSE IF HasRaised(AddAnswerScores(scores, question_num, answer))
           THEN /\ outcome' = AddAnswerScores(scores, question_num, answer)
                /\ pc' = "done"
                /\ scores' = InitialScores
                /\ question_num' = 0
           ELSE /\ scores' = AddAnswerScores(scores, question_num, answer)
                /\ question_num' = question_num + 1
                /\ UNCHANGED <<pc, outcome>>
    /\ UNCHANGED <<scoring_matrix, category_names, responses, num_responses>>

\* Lines 221-240: the loop is over; the result is built and returned.  The
\* dict the call accumulated in lives on as the result's "scores" (line 238).
Return ==
    /\ pc = "loop"
    /\ question_num > num_responses
    /\ outcome' = BuildResult(scores)
    /\ pc' = "done"
    /\ question_num' = 0
    /\ UNCHANGED <<scoring_matrix, category_names, responses, num_responses, scores,
                   valid_input>>

LoopNext ==
    /\ \/ Enter
       \/ \E tok \in RawTokens : Iterate(tok)
       \/ Return
    /\ UNCHANGED <<thread_vars, log_vars, outer_vars>>

SpecLoop == LoopInit /\ [][LoopNext]_vars

\* SpecFault: the call on a weight table that has lost one (question, choice)
\* entry or one whole question, next to the shipped table.  Line 216 reads the
\* table through the module global at call time, so the table is part of the
\* state the call starts from.
WithoutChoice(matrix, qnum, answer) ==
    [matrix EXCEPT ![qnum] =
        [a \in DOMAIN matrix[qnum] \ {answer} |-> matrix[qnum][a]]]

WithoutQuestion(matrix, qnum) ==
    [q \in DOMAIN matrix \ {qnum} |-> matrix[q]]

\* The row of (qnum, answer) names one more category, which scores lacks.
WithExtraCategory(matrix, qnum, answer, cat) ==
    [matrix EXCEPT ![qnum][answer] =
        [k \in DOMAIN @ \cup {cat} |-> IF k = cat THEN 2 ELSE @[k]]]

FaultyMatrices ==
    {WithoutChoice(SCORING_MATRIX, q, a) :
        q \in 1..NumQuestions, a \in ValidAnswers}
    \cup {WithoutQuestion(SCORING_MATRIX, q) : q \in 1..NumQuestions}
    \cup {WithExtraCategory(SCORING_MATRIX, q, a, "Forensics") :
              q \in 1..NumQuestions, a \in ValidAnswers}

\* The lists called on a faulty table: one token repeated ten times, and the
\* example lists.
FaultInputs ==
    {[i \in 1..NumQuestions |-> tok] : tok \in RawTokens} \cup ExampleInputs

FaultInit ==
    /\ scoring_matrix \in FaultyMatrices \cup {SCORING_MATRIX}
    /\ category_names = CATEGORY_NAMES
    /\ responses \in FaultInputs
    /\ num_responses = Len(responses)
    /\ pc = "ready"
    /\ question_num = 0
    /\ scores = InitialScores
    /\ outcome = NoOutcome
    /\ valid_input = IsValidInput(responses)
    /\ ThreadsIdle
    /\ LogIdle
    /\ OuterIdle

SpecFault == FaultInit /\ [][Next]_vars

\* SpecThreads: NumCallers callers run get_cyber_domain at the same time, one
\* loop iteration of one caller per step, in any order.  The callers share the
\* module globals; responses, question_num, answer and scores are locals of
\* each call.
Callers == 1..NumCallers

\* The lists the concurrent callers pass.
ThreadInputs ==
    {[i \in 1..10 |-> <<"A">>],
     [i \in 1..10 |-> <<"D">>],
     <<<<" ", "a">>, <<"B">>, <<"c", " ">>, <<"D">>, <<"a">>,
       <<"b">>, <<"c">>, <<"d">>, <<"a">>, <<"b">>>>,
     <<<<"A">>, <<"B">>, <<"C">>, <<"D">>, <<"E">>,
       <<"A">>, <<"B">>, <<"C">>, <<"D">>, <<"A">>>>,
     [i \in 1..9 |-> <<"B">>]}

\* No single call beside the concurrent ones.
SingleCallIdle ==
    /\ responses = <<>>
    /\ num_responses = 0
    /\ pc = "idle"
    /\ question_num = 0
    /\ scores = InitialScores
    /\ outcome = NoOutcome
    /\ valid_input = FALSE

ThreadsInit ==
    /\ scoring_matrix = SCORING_MATRIX
    /\ category_names = CATEGORY_NAMES
    /\ SingleCallIdle
    /\ LogIdle
    /\ OuterIdle
    /\ threads \in
        [Callers ->
            {[responses |-> r, pc |-> "ready", question_num |-> 0,
              outcome |-> NoOutcome] : r \in ThreadInputs}]
    /\ thread_scores = [cell \in {ScoresCell(c) : c \in Callers} |-> InitialScores]

\* Lines 193-204 in caller c: the length check, then a new score dict.
ThreadEnter(c) ==
    /\ threads[c].pc = "ready"
    /\ IF Len(threads[c].responses) # NumQuestions
       THEN /\ threads' = [threads EXCEPT
                   ![c].outcome = LengthError(Len(threads[c].responses)),
                   ![c].pc = "done"]
            /\ UNCHANGED thread_scores
       ELSE /\ thread_scores' =
                   [thread_scores EXCEPT ![ScoresCell(c)] = InitialScores]
            /\ threads' = [threads EXCEPT ![c].question_num = 1,
                                          ![c].pc = "loop"]
    /\ UNCHANGED <<scoring_matrix, category_names, single_call_vars, log_vars,
                   outer_vars>>

\* Lines 207-219 in caller c: one iteration of its loop.
ThreadIterate(c) ==
    /\ threads[c].pc = "loop"
    /\ threads[c].question_num <= Len(threads[c].responses)
    /\ LET qnum == threads[c].question_num
           answer == Normalize(threads[c].responses[qnum])
       IN  IF answer \notin ValidAnswers
           THEN /\ threads' = [threads EXCEPT
                       ![c].outcome = AnswerError(answer, qnum),
                       ![c].pc = "done",
                       ![c].question_num = 0]
                /\ thread_scores' =
                       [thread_scores EXCEPT ![ScoresCell(c)] = InitialScores]
           ELSE IF HasRaised(AddAnswerScores(thread_scores[ScoresCell(c)],
                                             qnum, answer))
           THEN /\ threads' = [threads EXCEPT
                       ![c].outcome =
                           AddAnswerScores(thread_scores[ScoresCell(c)],
                                           qnum, answer),
                       ![c].pc = "done",
                       ![c].question_num = 0]
                /\ thread_scores' =
                       [thread_scores EXCEPT ![ScoresCell(c)] = InitialScores]
           ELSE /\ thread_scores' =
                       [thread_scores EXCEPT ![ScoresCell(c)] =
                           AddAnswerScores(@, qnum, answer)]
                /\ threads' = [threads EXCEPT ![c].question_num = qnum + 1]
    /\ UNCHANGED <<scoring_matrix, category_names, single_call_vars, log_vars,
                   outer_vars>>

\* Lines 221-240 in caller c: its result is built and returned.
ThreadReturn(c) ==
    /\ threads[c].pc = "loop"
    /\ threads[c].question_num > Len(threads[c].responses)
    /\ threads' = [threads EXCEPT
           ![c].outcome = BuildResult(thread_scores[ScoresCell(c)]),
           ![c].pc = "done",
           ![c].question_num = 0]
    /\ thread_scores' = [thread_scores EXCEPT ![ScoresCell(c)] = InitialScores]
    /\ UNCHANGED <<scoring_matrix, category_names, single_call_vars, log_vars,
                   outer_vars>>

ThreadsNext ==
    \E c \in Callers :
        \/ ThreadEnter(c)
        \/ ThreadIterate(c)
        \/ ThreadReturn(c)

SpecThreads == ThreadsInit /\ [][ThreadsNext]_vars

\* SpecCalls: one caller calls get_cyber_domain up to MaxCalls times, one call
\* after the other, each call taken one loop iteration at a time.  call_log
\* keeps what the run's first call produced; the later calls are made on that
\* list again or on one of the lists of OtherInputs.
OtherInputs == ThreadInputs

\* The lists of the run's first call: the valid lists whose first NumVaried
\* answers vary, and the lists of OtherInputs.
CallInputs ==
    {FamilyInput(NumQuestions, free, odd, even) :
        free \in [1..NumVaried -> ValidAnswers],
        odd \in ValidAnswers, even \in ValidAnswers}
    \cup OtherInputs

CallsInit ==
    /\ scoring_matrix = SCORING_MATRIX
    /\ category_names = CATEGORY_NAMES
    /\ responses \in CallInputs
    /\ num_responses = Len(responses)
    /\ pc = "ready"
    /\ question_num = 0
    /\ scores = InitialScores
    /\ outcome = NoOutcome
    /\ valid_input = IsValidInput(responses)
    /\ ThreadsIdle
    /\ LogIdle
    /\ OuterIdle

\* Line 207: the loop takes the next answer off the caller's list.
ReadAnswer ==
    /\ pc = "loop"
    /\ question_num <= num_responses
    /\ Iterate(responses[question_num])

\* The record of the calls, kept as a call ends.
LogCall ==
    IF pc' = "done"
    THEN /\ num_calls' = num_calls + 1
         /\ call_log' =
                IF num_calls = 0
                THEN responses :> [first |-> outcome', count |-> 1]
                ELSE IF responses \in DOMAIN call_log
                THEN [call_log EXCEPT ![responses].count = @ + 1]
                ELSE call_log
    ELSE UNCHANGED log_vars

\* One step of the call under way.
CallStep ==
    /\ \/ Enter
       \/ ReadAnswer
       \/ Return
    /\ LogCall
    /\ UNCHANGED <<thread_vars, outer_vars>>

\* The caller passes the list x to a further call.
NextCall(x) ==
    /\ pc = "done"
    /\ num_calls < MaxCalls
    /\ responses' = x
    /\ num_responses' = Len(x)
    /\ valid_input' = IsValidInput(x)
    /\ outcome' = NoOutcome
    /\ pc' = "ready"
    /\ UNCHANGED <<scoring_matrix, category_names, question_num, scores,
                   thread_vars, log_vars, outer_vars>>

CallsNext ==
    \/ CallStep
    \/ \E x \in OtherInputs \cup DOMAIN call_log : NextCall(x)

SpecCalls == CallsInit /\ [][CallsNext]_vars

\* SpecRoadmap: one call generate_roadmap(domain, market_data) under some
\* setting of the two API keys, the provider's exchange ending in any way.
RoadmapDomains == Categories \cup {"Forensics"}

\* market_data as plain lists, as the hasattr fall-through of lines 36-37
\* accepts them.
ListTrends ==
    [trending_skills |->
        [type |-> "list", items |-> <<"Threat hunting", "Python">>],
     certifications |-> [type |-> "list", items |-> <<"OSCP", "CISSP">>]]

\* market_data as dicts of lists, as the isinstance branch of lines 322-328
\* accepts them.
DictTrends ==
    [trending_skills |->
        [type |-> "dict", items |-> <<<<"Threat hunting", "Python">>>>],
     certifications |-> [type |-> "dict", items |-> <<<<"OSCP">>>>]]

\* The market_data arguments: what fetch_market_trends returns for the domain,
\* the other shapes the code tests for, dicts short of a key, and a list
\* beside a dict.
MarketArguments(domain) ==
    {fetch_market_trends(domain, fault) : fault \in BOOLEAN}
    \cup {ListTrends, DictTrends, <<>>,
          [trending_skills |-> FallbackTrends.trending_skills],
          [trending_skills |-> DictTrends.trending_skills],
          [trending_skills |-> ListTrends.trending_skills,
           certifications |-> DictTrends.certifications]}

RoadmapInit ==
    /\ scoring_matrix = SCORING_MATRIX
    /\ category_names = CATEGORY_NAMES
    /\ SingleCallIdle
    /\ ThreadsIdle
    /\ LogIdle
    /\ AppIdle
    /\ api_keys \in [GEMINI_API_KEY : BOOLEAN, OPENAI_API_KEY : BOOLEAN]
    /\ roadmap_call \in
        UNION {{[domain |-> d, market_data |-> m] : m \in MarketArguments(d)} :
                  d \in RoadmapDomains}
    /\ roadmap_pc = "ready"
    /\ roadmap_post = None
    /\ attempts = <<>>
    /\ roadmap_outcome = NoOutcome
    /\ gemini_cache = <<>>
    /\ roadmap_calls = 0

\* The call ends: what it returns or raises reaches the caller.
EndRoadmap(end) ==
    /\ roadmap_outcome' = end.outcome
    /\ attempts' = end.attempts
    /\ gemini_cache' = end.cache
    /\ roadmap_pc' = "done"
    /\ roadmap_post' = None
    /\ roadmap_calls' = roadmap_calls + 1

\* The caller calls generate_roadmap: the call runs up to the provider's
\* request and waits in requests.post (lines 72 and 146), or ends at once when
\* the selected generator makes no request.
GenerateRoadmap ==
    /\ roadmap_pc = "ready"
    /\ LET begun == roadmap_begin(gemini_cache, api_keys, roadmap_call.domain,
                                  roadmap_call.market_data)
       IN  IF begun.posted
           THEN /\ roadmap_pc' = "waiting"
                /\ roadmap_post' = begun
                /\ UNCHANGED <<attempts, roadmap_outcome, gemini_cache,
                               roadmap_calls>>
           ELSE EndRoadmap(roadmap_end(begun, begun.first, gemini_cache,
                                       roadmap_call.domain,
                                       roadmap_call.market_data))
    /\ UNCHANGED <<scoring_matrix, category_names, single_call_vars,
                   thread_vars, log_vars, app_vars, api_keys, roadmap_call>>

\* The exchange with the provider ends as `reply` and the call runs to its
\* end: the cache as it is now takes the value, the except branch reads
\* market_data as it is now.
ProviderReplies(reply) ==
    /\ roadmap_pc = "waiting"
    /\ EndRoadmap(roadmap_end(roadmap_post,
                              provider_response(roadmap_post.generator, reply),
                              gemini_cache, roadmap_call.domain,
                              roadmap_call.market_data))
    /\ UNCHANGED <<scoring_matrix, category_names, single_call_vars,
                   thread_vars, log_vars, app_vars, api_keys, roadmap_call>>

\* While the request waits, another thread of the caller puts other values
\* into the market_data dict the call was given.
MarketDataChanges(market_data) ==
    /\ roadmap_pc = "waiting"
    /\ market_data # roadmap_call.market_data
    /\ roadmap_call' = [roadmap_call EXCEPT !.market_data = market_data]
    /\ UNCHANGED <<scoring_matrix, category_names, single_call_vars,
                   thread_vars, log_vars, app_vars, api_keys, roadmap_pc,
                   roadmap_post, attempts, roadmap_outcome, gemini_cache,
                   roadmap_calls>>

\* While the request waits, a call another session made with the same
\* arguments returns, and st.cache_data stores its value (line 18).
OtherCallStores(value) ==
    /\ roadmap_pc = "waiting"
    /\ roadmap_post.generator = "gemini"
    /\ gemini_cache' =
           CacheAfter(gemini_cache, roadmap_post.key, ProviderReturn("gemini", value))
    /\ gemini_cache' # gemini_cache
    /\ UNCHANGED <<scoring_matrix, category_names, single_call_vars,
                   thread_vars, log_vars, app_vars, api_keys, roadmap_call,
                   roadmap_pc, roadmap_post, attempts, roadmap_outcome,
                   roadmap_calls>>

\* The caller makes the call once more, in the same environment.
CallAgain ==
    /\ roadmap_pc = "done"
    /\ roadmap_calls < MaxRoadmapCalls
    /\ roadmap_pc' = "ready"
    /\ attempts' = <<>>
    /\ roadmap_outcome' = NoOutcome
    /\ UNCHANGED <<scoring_matrix, category_names, single_call_vars,
                   thread_vars, log_vars, app_vars, api_keys, roadmap_call,
                   roadmap_post, gemini_cache, roadmap_calls>>

\* Line 18, ttl=3600: an hour has passed since the entries were stored.
CacheLapses ==
    /\ gemini_cache # <<>>
    /\ gemini_cache' = <<>>
    /\ UNCHANGED <<scoring_matrix, category_names, single_call_vars,
                   thread_vars, log_vars, app_vars, api_keys, roadmap_call,
                   roadmap_pc, roadmap_post, attempts, roadmap_outcome,
                   roadmap_calls>>

RoadmapNext ==
    \/ GenerateRoadmap
    \/ \E reply \in Replies : ProviderReplies(reply)
    \/ \E market_data \in {ListTrends, DictTrends} :
           MarketDataChanges(market_data)
    \/ \E value \in {JStr(SampleText), JNull} : OtherCallStores(value)
    \/ CallAgain
    \/ CacheLapses

SpecRoadmap == RoadmapInit /\ [][RoadmapNext]_vars

\* SpecApp: one session of app.py.  A user event starts a script run; a run
\* that waits inside a call (time.sleep under fetch_market_trends,
\* requests.post under generate_roadmap) takes one step up to the wait and one
\* step from it, and between the two the session is as the writes made so far
\* leave it.  Streamlit runs one script thread per session: an event that
\* arrives during a run is served by a new run, after the running one has
\* been stopped at its next call into Streamlit.
AppInit ==
    /\ scoring_matrix = SCORING_MATRIX
    /\ category_names = CATEGORY_NAMES
    /\ SingleCallIdle
    /\ ThreadsIdle
    /\ LogIdle
    /\ RoadmapIdle
    /\ session = InitialSession
    /\ script = Idle
    /\ event = [name |-> "none", fault |-> FALSE]

\* What no event of the app changes.
app_frame ==
    <<scoring_matrix, category_names, single_call_vars, thread_vars, log_vars,
      roadmap_vars>>

\* Lines 49-76: the user picks option `answer` of the current question; the
\* run stores the radio's value in responses.
SelectAnswer(answer) ==
    /\ script = Idle
    /\ InQuiz
    /\ answer \in UserChoices(session.current_question)
    /\ answer # session.responses[session.current_question]
    /\ session' = [session EXCEPT !.responses[session.current_question] = answer]
    /\ event' = [name |-> "select", fault |-> FALSE]
    /\ UNCHANGED <<app_frame, script>>

\* Lines 281-284: the Previous button, disabled on question 1.
Previous ==
    /\ script = Idle
    /\ InQuiz
    /\ session.current_question # 1
    /\ session' = [session EXCEPT
           !.current_question =
               IF session.current_question - 1 > 1
               THEN session.current_question - 1
               ELSE 1]
    /\ event' = [name |-> "previous", fault |-> FALSE]
    /\ UNCHANGED <<app_frame, script>>

\* Mutant: Next moves on without an answer selected.
NextQuestion_Unchecked ==
    /\ script = Idle
    /\ InQuiz
    /\ session.current_question < 10
    /\ session' = [session EXCEPT
           !.current_question = Min(10, session.current_question + 1)]
    /\ event' = [name |-> "next", fault |-> FALSE]
    /\ UNCHANGED <<app_frame, script>>

\* Lines 286-293: the Next button, shown before question 10.
NextQuestion ==
    /\ script = Idle
    /\ InQuiz
    /\ session.current_question < 10
    /\ IF session.responses[session.current_question] # NoAnswer
       THEN session' = [session EXCEPT
                !.current_question = Min(10, session.current_question + 1)]
       ELSE UNCHANGED session
    /\ event' = [name |-> "next", fault |-> FALSE]
    /\ UNCHANGED <<app_frame, script>>

\* Lines 294-311: the Submit button, shown on question 10, up to the wait in
\* fetch_market_trends: the checks, the classification and the write of
\* results (line 307).  A run that reports a missing answer or an exception
\* of the classifier ends here.
SubmitQuiz ==
    /\ script = Idle
    /\ InQuiz
    /\ session.current_question >= 10
    /\ LET selected_answer == session.responses[session.current_question]
           results == get_cyber_domain(session.responses)
       IN  IF selected_answer = NoAnswer
           THEN UNCHANGED <<session, script>>
           ELSE IF \E i \in 1..Len(session.responses) :
                       session.responses[i] = NoAnswer
           THEN UNCHANGED <<session, script>>
           ELSE /\ session' = StoreResults(session, results)
                /\ script' = IF IsRaised(results)
                             THEN Idle
                             ELSE [at |-> "fetch", call |-> None]
    /\ event' = [name |-> "submit", fault |-> FALSE]
    /\ UNCHANGED app_frame

\* Lines 311-312: fetch_market_trends comes back from its wait (time.sleep,
\* market_intel.py line 32) and market_data is written; `fault` says that its
\* try block raised.  An exception it let through would end the run at line
\* 318.
FetchReturns(fault) ==
    /\ script.at = "fetch"
    /\ LET market_data == fetch_market_trends(session.results.domain, fault)
       IN  /\ session' = StoreMarketData(session, market_data)
           /\ script' = IF IsRaised(market_data)
                        THEN Idle
                        ELSE [at |-> "fetched", call |-> None]
    /\ event' = [name |-> "fetched", fault |-> fault]
    /\ UNCHANGED app_frame

\* Lines 314-315: the run writes quiz_complete and asks for the rerun that
\* shows the results page.
CompleteQuiz ==
    /\ script.at = "fetched"
    /\ session' = [session EXCEPT !.quiz_complete = TRUE]
    /\ script' = Idle
    /\ event' = [name |-> "complete", fault |-> event.fault]
    /\ UNCHANGED app_frame

\* A new event of the session (a click, a page change, the browser going
\* away) ends the run under way: Streamlit raises its stop in the script
\* thread at the run's next call into Streamlit, and neither `except
\* Exception` catches it.  In a Submit run these calls are the entry and the
\* exit of the inner st.spinner (line 310), after results and after
\* market_data is written; in a Generate Roadmap run the exit of the spinner
\* st.cache_data shows around _generate_with_gemini (roadmap_gen.py line 18),
\* before line 231.  What the run has written stays written.
StopScript ==
    /\ \/ script.at \in {"fetch", "fetched"}
       \/ script.at = "generate" /\ script.call.generator = "gemini"
    /\ script' = Idle
    /\ event' = [name |-> "stop", fault |-> FALSE]
    /\ UNCHANGED <<app_frame, session>>

\* Lines 161-181: the sidebar's page selector.
SelectPage(page) ==
    /\ script = Idle
    /\ page \in {"Career Navigator", "Vulnerability Scanner"}
    /\ page # session.selected_page
    /\ session' = [session EXCEPT !.selected_page = page]
    /\ event' = [name |-> "page", fault |-> FALSE]
    /\ UNCHANGED <<app_frame, script>>

\* Line 18: what the Gemini cache can hold for a call's arguments when the
\* session makes the call: nothing, or what an earlier call on them returned,
\* a text or None.  The cache is one store for every session of the server
\* and its entries lapse.
SharedCaches(domain, market_data) ==
    {<<>>} \cup
    {CacheAfter(<<>>, CacheKey(domain, market_data, PromptTemplate(domain)),
                ProviderReturn("gemini", value)) :
        value \in {JStr(SampleText), JNull}}

\* Lines 218-239: the Generate Roadmap button, shown while no roadmap has
\* been generated, up to the wait in requests.post.  os.getenv is read at the
\* call: `keys` is the environment of this click, `cache` what the Gemini
\* cache holds.  A call that makes no request ends here, and with it the run.
ClickGenerateRoadmap(keys) ==
    /\ script = Idle
    /\ OnResults
    /\ ~session.roadmap_generated
    /\ IF session.results # None /\ session.market_data # None
       THEN \E cache \in SharedCaches(session.results.domain,
                                      session.market_data) :
                LET begun == roadmap_begin(cache, keys, session.results.domain,
                                           session.market_data)
                    ended == roadmap_end(begun, begun.first, cache,
                                         session.results.domain,
                                         session.market_data)
                IN  IF begun.posted
                    THEN /\ script' = [at |-> "generate", call |-> begun]
                         /\ UNCHANGED session
                    ELSE /\ session' = StoreRoadmap(session, ended.outcome)
                         /\ UNCHANGED script
       ELSE UNCHANGED <<session, script>>
    /\ event' = [name |-> "generate", fault |-> FALSE]
    /\ UNCHANGED app_frame

\* Lines 228-237: the provider's exchange ends as `reply`, generate_roadmap
\* comes back and the run stores what it returned or reports what it raised.
RoadmapReturns(reply) ==
    /\ script.at = "generate"
    /\ LET first == provider_response(script.call.generator, reply)
           ended == roadmap_end(script.call, first, <<>>,
                                session.results.domain, session.market_data)
       IN  session' = StoreRoadmap(session, ended.outcome)
    /\ script' = Idle
    /\ event' = [name |-> "roadmap", fault |-> FALSE]
    /\ UNCHANGED app_frame

\* Lines 240-253: the Regenerate Roadmap button, shown under the roadmap.
RegenerateRoadmap ==
    /\ script = Idle
    /\ OnResults
    /\ session.roadmap_generated
    /\ session' = [session EXCEPT !.roadmap = None,
                                  !.roadmap_generated = FALSE]
    /\ event' = [name |-> "regenerate", fault |-> FALSE]
    /\ UNCHANGED <<app_frame, script>>

\* Mutant: Retake Quiz leaves the roadmap in place.
RetakeQuiz_KeepsRoadmap ==
    /\ script = Idle
    /\ OnResults
    /\ session' = [session EXCEPT
           !.current_question = 1,
           !.responses = [i \in 1..NumQuestions |-> NoAnswer],
           !.quiz_complete = FALSE,
           !.results = None,
           !.market_data = None]
    /\ event' = [name |-> "retake", fault |-> FALSE]
    /\ UNCHANGED <<app_frame, script>>

\* Lines 255-265: the Retake Quiz button at the foot of the results page.
RetakeQuiz ==
    /\ script = Idle
    /\ OnResults
    /\ session' = [session EXCEPT
           !.current_question = 1,
           !.responses = [i \in 1..NumQuestions |-> NoAnswer],
           !.quiz_complete = FALSE,
           !.results = None,
           !.market_data = None,
           !.roadmap = None,
           !.roadmap_generated = FALSE]
    /\ event' = [name |-> "retake", fault |-> FALSE]
    /\ UNCHANGED <<app_frame, script>>

AppNext ==
    \/ \E answer \in ValidAnswers : SelectAnswer(answer)
    \/ Previous
    \/ NextQuestion
    \/ SubmitQuiz
    \/ \E fault \in BOOLEAN : FetchReturns(fault)
    \/ CompleteQuiz
    \/ StopScript
    \/ \E page \in {"Career Navigator", "Vulnerability Scanner"} :
           SelectPage(page)
    \/ \E keys \in [GEMINI_API_KEY : BOOLEAN, OPENAI_API_KEY : BOOLEAN] :
           ClickGenerateRoadmap(keys)
    \/ \E reply \in Replies : RoadmapReturns(reply)
    \/ RegenerateRoadmap
    \/ RetakeQuiz

SpecApp == AppInit /\ [][AppNext]_vars

\* SpecAppFair: SpecApp with the progress the script thread makes by itself.
\* A Submit run waiting in fetch_market_trends comes back from time.sleep(0.1)
\* (market_intel.py line 32), and a run that has stored market_data goes on
\* to line 314, unless a new event of the session ends the run first.  What
\* the user does, and when a provider answers, is under no fairness.
SpecAppFair ==
    /\ SpecApp
    /\ WF_vars(\E fault \in BOOLEAN : FetchReturns(fault))
    /\ WF_vars(CompleteQuiz)

\* -------------------------------------------------------------- properties

\* C1: for a valid input, each category's returned score is the sum over
\* questions 1..10 of the weight-table entry for the chosen letter.
C1_ScoresAreTableSums ==
    (pc = "done" /\ IsValidInput(responses)) =>
        /\ outcome.kind = "returned"
        /\ \A cat \in {"Red Team", "Blue Team", "AppSec", "GRC", "Cloud Security"} :
              Score(outcome.scores, cat) =
                  0 + Weight(responses, 1, cat) + Weight(responses, 2, cat)
                    + Weight(responses, 3, cat) + Weight(responses, 4, cat)
                    + Weight(responses, 5, cat) + Weight(responses, 6, cat)
                    + Weight(responses, 7, cat) + Weight(responses, 8, cat)
                    + Weight(responses, 9, cat) + Weight(responses, 10, cat)

\* A valid input with four different letters has been scored.
C1_Witness ==
    /\ Returned
    /\ IsValidInput(responses)
    /\ {TrimmedUpper(responses[i]) : i \in 1..10} = ChoiceLetters
    /\ Score(outcome.scores, "GRC") > 0

\* C2: for a valid input, the primary domain has the maximum score and no
\* category earlier in the declaration order has that score too.
C2_PrimaryIsFirstMaximum ==
    (pc = "done" /\ valid_input) =>
        /\ outcome.kind = "returned"
        /\ \E i \in 1..5 :
              /\ outcome.domain = DeclaredOrder[i]
              /\ \A j \in 1..5 :
                    Score(outcome.scores, DeclaredOrder[j]) <= Score(outcome.scores, DeclaredOrder[i])
              /\ \A j \in 1..(i - 1) :
                    Score(outcome.scores, DeclaredOrder[j]) < Score(outcome.scores, DeclaredOrder[i])

\* Blue Team and AppSec tie for the maximum and Blue Team is returned.
C2_Witness ==
    /\ Returned
    /\ valid_input
    /\ outcome.domain = "Blue Team"
    /\ Score(outcome.scores, "AppSec") = Score(outcome.scores, "Blue Team")
    /\ Score(outcome.scores, "Red Team") < Score(outcome.scores, "Blue Team")

\* C3: an input whose length is not 10 fails with a validation error that
\* reports the expected count 10 and the actual count.
C3_WrongLengthRaises ==
    (pc = "done" /\ Len(responses) # 10) =>
        outcome = [kind |-> "raised", exc |-> "ValueError", what |-> "length",
                   expected |-> 10, got |-> Len(responses)]

\* Nine answers were refused: expected 10, got 9.
C3_Witness ==
    /\ Raised
    /\ Len(responses) = 9
    /\ outcome.what = "length"
    /\ outcome.got = 9

\* C4: a 10-element input with an element outside A-D fails with a validation
\* error naming the 1-indexed question of an offending element and its token.
C4_InvalidLetterRaises ==
    (/\ pc = "done"
     /\ Len(responses) = 10
     /\ \E i \in 1..10 : TrimmedUpper(responses[i]) \notin ChoiceLetters) =>
        /\ outcome.kind = "raised"
        /\ outcome.exc = "ValueError"
        /\ outcome.what = "answer"
        /\ outcome.question \in 1..10
        /\ TrimmedUpper(responses[outcome.question]) \notin ChoiceLetters
        /\ outcome.answer = TrimmedUpper(responses[outcome.question])

\* The example A B C D E A B C D A was refused at question 5, token "E".
C4_Witness ==
    /\ Raised
    /\ responses = <<<<"A">>, <<"B">>, <<"C">>, <<"D">>, <<"E">>,
                     <<"A">>, <<"B">>, <<"C">>, <<"D">>, <<"A">>>>
    /\ outcome.what = "answer"
    /\ outcome.question = 5
    /\ outcome.answer = <<"E">>

\* C5: the call fails exactly when the input is invalid; a valid input yields
\* the complete result, and a failure carries no result field at all.
C5_FailsIffInvalid ==
    (pc = "done") =>
        /\ outcome.kind \in {"returned", "raised"}
        /\ (outcome.kind = "raised") <=> ~valid_input
        /\ (outcome.kind = "returned") =>
              /\ DOMAIN outcome = {"kind", "domain", "full_name", "scores", "confidence"}
              /\ Listed(outcome.scores) =
                    {"Red Team", "Blue Team", "AppSec", "GRC", "Cloud Security"}
        /\ (outcome.kind = "raised") =>
              DOMAIN outcome \cap {"domain", "full_name", "scores", "confidence"} = {}

\* A call failed on a later question, after valid answers had been scored.
C5_Witness ==
    /\ Raised
    /\ num_responses = 10
    /\ ~valid_input
    /\ outcome.what = "answer"
    /\ outcome.question = 10

\* C6: for a valid input the confidence is min(100, 50 + gap/50*50) to one
\* decimal: 50.0 at gap 0, one point per point of gap, 100.0 from gap 50 on.
C6_ConfidenceFormula ==
    /\ (pc = "done" /\ valid_input) =>
          /\ outcome.kind = "returned"
          /\ outcome.confidence =
                IF Gap(outcome.scores) >= 50
                THEN 1000
                ELSE 500 + 10 * Gap(outcome.scores)
    /\ \A gap \in 0..MaxGap :
          Confidence(gap) = IF gap >= 50 THEN 1000 ELSE 500 + 10 * gap

\* A result with a tie for first (gap 0) has confidence 50.0.
C6_Witness ==
    /\ Returned
    /\ valid_input
    /\ Gap(outcome.scores) = 0
    /\ outcome.confidence = 500

\* C7 as stated: ten "A" answers score 40, 15, 26, 4, 16.
C7_AllA_Original ==
    (pc = "done" /\ responses = AllA) =>
        /\ outcome.kind = "returned"
        /\ outcome.scores = ScoreVector(40, 15, 26, 4, 16)
        /\ outcome.domain = "Red Team"
        /\ outcome.full_name = "Red Team (Offensive)"

\* C7 amended: ten "A" answers score Red Team 42, Blue Team 18, AppSec 31,
\* GRC 3, Cloud Security 21; Red Team is primary, "Red Team (Offensive)".
C7_AllA ==
    (pc = "done" /\ responses = AllA) =>
        /\ outcome.kind = "returned"
        /\ outcome.scores = ScoreVector(42, 18, 31, 3, 21)
        /\ outcome.domain = "Red Team"
        /\ outcome.full_name = "Red Team (Offensive)"

\* The ten "A" answers have been classified.
C7_Witness == Returned /\ responses = AllA /\ Score(outcome.scores, "Red Team") = 42

\* C8 as stated: ten "D" answers select GRC with confidence 100.0.
C8_AllD_Original ==
    (pc = "done" /\ responses = AllD) =>
        /\ outcome.kind = "returned"
        /\ outcome.domain = "GRC"
        /\ outcome.confidence = 1000

\* C8 amended: ten "D" answers select GRC with confidence 78.0 (GRC 45,
\* runner-up Blue Team 17, gap 28).
C8_AllD ==
    (pc = "done" /\ responses = AllD) =>
        /\ outcome.kind = "returned"
        /\ outcome.domain = "GRC"
        /\ outcome.confidence = 780

\* The ten "D" answers have been classified.
C8_Witness == Returned /\ responses = AllD /\ outcome.domain = "GRC"

\* C9: for a valid input the confidence lies in [50.0, 100.0].
C9_ConfidenceBounds ==
    (pc = "done" /\ valid_input) =>
        /\ outcome.kind = "returned"
        /\ outcome.confidence >= 500
        /\ outcome.confidence <= 1000

\* A result with a clear winner: confidence strictly inside the interval.
C9_Witness ==
    /\ Returned
    /\ valid_input
    /\ outcome.confidence > 700
    /\ outcome.confidence < 1000

\* C10: ten letters A-D in any case with surrounding whitespace give exactly
\* the result of the same sequence upper-cased and trimmed.
C10_NormalisationTransparent ==
    (pc = "done" /\ IsValidInput(responses)) =>
        /\ outcome.kind = "returned"
        /\ outcome = get_cyber_domain([i \in 1..10 |-> TrimmedUpper(responses[i])])

\* The mixed-case, padded example has been classified.
C10_Witness ==
    /\ Returned
    /\ responses = <<<<" ", "a">>, <<"B">>, <<"c", " ">>, <<"D">>, <<"a">>,
                     <<"b">>, <<"c">>, <<"d">>, <<"a">>, <<"b">>>>
    /\ outcome.scores = get_cyber_domain(
           <<<<"A">>, <<"B">>, <<"C">>, <<"D">>, <<"A">>,
             <<"B">>, <<"C">>, <<"D">>, <<"A">>, <<"B">>>>).scores

\* The (question, choice) pairs of the list resp that the table `matrix` has no
\* entry for.
MissingPairs(matrix, resp) ==
    {q \in 1..Len(resp) :
        \/ q \notin DOMAIN matrix
        \/ TrimmedUpper(resp[q]) \notin DOMAIN matrix[q]}

\* C11: a (question, choice) pair of a valid input that has no weight-table
\* entry is fatal: the call fails instead of returning a result to which that
\* question contributes nothing.
C11_MissingEntryIsFatal ==
    (pc = "done" /\ valid_input /\ MissingPairs(scoring_matrix, responses) # {})
        => outcome.kind = "raised"

\* C12: the weight table is fully populated: each question 1..10 and each
\* letter A-D has an entry, the entry has a value for each of the five
\* categories, and each value is an integer from 0 to 5.
C12_TableFullyPopulated ==
    /\ DOMAIN scoring_matrix = 1..10
    /\ \A q \in 1..10 :
        /\ DOMAIN scoring_matrix[q] = ChoiceLetters
        /\ \A a \in ChoiceLetters :
            /\ DOMAIN scoring_matrix[q][a] =
                   {"Red Team", "Blue Team", "AppSec", "GRC", "Cloud Security"}
            /\ \A cat \in DOMAIN scoring_matrix[q][a] :
                   scoring_matrix[q][a][cat] \in 0..5

\* A call has returned after reading entries that hold both ends of the range.
C12_Witness ==
    /\ Returned
    /\ valid_input
    /\ \E q \in 1..10 : \E cat \in Listed(outcome.scores) :
           scoring_matrix[q][TrimmedUpper(responses[q])][cat] = 0
    /\ \E q \in 1..10 : \E cat \in Listed(outcome.scores) :
           scoring_matrix[q][TrimmedUpper(responses[q])][cat] = 5

\* The score vectors, in declaration order, whose entries are 0 or 1.
ZeroOneVectors ==
    {ScoreVector(r, b, a, g, c) : r \in {0, 1}, b \in {0, 1}, a \in {0, 1},
                                  g \in {0, 1}, c \in {0, 1}}

\* The categories of a score vector in the order the vector lists them.
Listing(sc) == [i \in 1..Len(sc.items) |-> sc.items[i][1]]

\* C16: the returned score vector has exactly the five category keys, in
\* declaration order, categories whose score is 0 included.  The second
\* conjunct applies the result builder to the vectors with zero scores; it
\* does not depend on the state and is evaluated before the call only.
C16_FiveKeysInOrder ==
    /\ Returned => Listing(outcome.scores) = DeclaredOrder
    /\ pc = "ready" =>
        \A sc \in ZeroOneVectors : BuildResult(sc).scores = sc

\* A result was returned whose lowest score is the lowest the table allows,
\* and whose scores do not descend in the order they are listed.
C16_Witness ==
    /\ Returned
    /\ valid_input
    /\ Score(outcome.scores, "GRC") = 3
    /\ Listing(outcome.scores) = DeclaredOrder
    /\ Score(outcome.scores, "Blue Team") < Score(outcome.scores, "AppSec")

\* The scores a call run alone holds when it is about to read question qnum.
ScoresBefore(resp, qnum) ==
    ProcessResponses(SubSeq(resp, 1, qnum - 1), 1, InitialScores).scores

\* C13: concurrent calls do not interfere: each returns what it returns when
\* run alone, each accumulates in its own score vector only what its own
\* answers contribute, and the shared weight table is only read.
C13_CallsDoNotInterfere ==
    /\ scoring_matrix = SCORING_MATRIX
    /\ \A c \in Callers :
        /\ threads[c].pc = "done" =>
               threads[c].outcome = get_cyber_domain(threads[c].responses)
        /\ threads[c].pc = "loop" =>
               thread_scores[ScoresCell(c)] =
                   ScoresBefore(threads[c].responses, threads[c].question_num)

\* One caller has returned while another, on a different list, is in the
\* middle of its loop.
C13_Witness ==
    \E c \in Callers : \E d \in Callers \ {c} :
        /\ threads[c].pc = "done"
        /\ threads[c].outcome.kind = "returned"
        /\ threads[d].pc = "loop"
        /\ threads[d].question_num = 6
        /\ threads[d].responses # threads[c].responses

\* C14: every step of a call, whether the call returns or raises, leaves the
\* weight table, the category display names and the caller's list as they
\* were; and a call on the list of the run's first call ends as that first
\* call ended, whatever calls came between.
C14_FrameAndHistoryIndependence ==
    [][(pc \in {"ready", "loop"}) =>
          /\ scoring_matrix' = scoring_matrix
          /\ category_names' = category_names
          /\ responses' = responses
          /\ (pc' = "done" /\ responses \in DOMAIN call_log) =>
                 (outcome' = call_log[responses].first)]_vars

\* A list with answers in lower case and padded was called, a call on another
\* list followed, and the first list was called again: both calls on it
\* returned, and the list still holds the answers as they were passed.
C14_Witness ==
    /\ Returned
    /\ num_calls = 3
    /\ responses \in DOMAIN call_log
    /\ call_log[responses].count = 2
    /\ call_log[responses].first.kind = "returned"
    /\ responses[1] = <<" ", "a">>

\* C15: two calls on the same valid input return the same primary domain, the
\* same score vector and the same confidence.
C15_SameInputSameResult ==
    (pc = "done" /\ IsValidInput(responses) /\ responses \in DOMAIN call_log
        /\ call_log[responses].count >= 2) =>
        /\ outcome.kind = "returned"
        /\ call_log[responses].first.kind = "returned"
        /\ outcome.domain = call_log[responses].first.domain
        /\ outcome.scores = call_log[responses].first.scores
        /\ outcome.confidence = call_log[responses].first.confidence

\* The same valid list was called twice in a row and returned both times, the
\* second call starting beside the score dict the first one had filled.
C15_Witness ==
    /\ Returned
    /\ IsValidInput(responses)
    /\ num_calls = 2
    /\ responses \in DOMAIN call_log
    /\ call_log[responses].count = 2
    /\ call_log[responses].first.kind = "returned"
    /\ Score(outcome.scores, "Red Team") > 0

\* The first generator invoked was an AI provider, and its call raised.
ProviderFailed ==
    /\ roadmap_pc = "done"
    /\ attempts[1].generator \in {"gemini", "openai"}
    /\ attempts[1].raised

\* C17: the ladder is Gemini, then OpenAI, then the template roadmap: when the
\* Gemini call fails and an OpenAI key is configured, OpenAI is invoked before
\* the template roadmap.
C17_OpenAITriedAfterGemini ==
    (/\ ProviderFailed
     /\ attempts[1].generator = "gemini"
     /\ api_keys.OPENAI_API_KEY)
        => /\ Len(attempts) >= 2
           /\ attempts[2].generator = "openai"

\* C18: with neither API key configured, generate_roadmap raises ValueError.
C18_NoKeyRaisesValueError ==
    (/\ roadmap_pc = "done"
     /\ ~api_keys.GEMINI_API_KEY
     /\ ~api_keys.OPENAI_API_KEY)
        => /\ roadmap_outcome.kind = "raised"
           /\ roadmap_outcome.exc = "ValueError"

\* The heading of the template roadmap for a domain.
TemplateHeading(domain) ==
    CASE domain = "Red Team" ->
             <<"# 6-Month Offensive Security (Red Team) ", "Roadmap">>
      [] OTHER -> <<"# 6-Month ", domain, " Learning Roadmap">>

\* C19: when the selected provider's call fails, whatever the reason, and the
\* template roadmap can be built, generate_roadmap returns the template
\* roadmap of the same domain; it raises only when the template roadmap fails
\* too, and the error then carries the provider's failure.
C19_TemplateOnProviderFailure ==
    /\ (ProviderFailed /\ ~attempts[Len(attempts)].raised) =>
        /\ roadmap_outcome.kind = "returned"
        /\ roadmap_outcome.by = "template"
        /\ roadmap_outcome.heading = TemplateHeading(roadmap_call.domain)
    /\ (roadmap_pc = "done" /\ roadmap_outcome.kind = "raised") =>
        /\ attempts[Len(attempts)].generator = "template"
        /\ attempts[Len(attempts)].raised
    /\ (ProviderFailed /\ roadmap_outcome.kind = "raised") =>
        /\ roadmap_outcome.exc = "Exception"
        /\ roadmap_outcome.msg =
               <<"Failed to generate roadmap: ">> \o attempts[1].error

\* The Gemini call failed at the transport and the template roadmap of the
\* domain came back.
C19_Witness ==
    /\ ProviderFailed
    /\ attempts[1].generator = "gemini"
    /\ attempts[1].error =
           <<"Error calling ", "Gemini", " API: ", "request failed">>
    /\ roadmap_call.domain = "Blue Team"
    /\ roadmap_outcome.kind = "returned"
    /\ roadmap_outcome.by = "template"
    /\ Len(roadmap_outcome.skills) = 10

\* A table of three rows, written out: rank, name and the constant label.
ThreeRows(name_col, n1, n2, n3, label_col, label) ==
    [type |-> "DataFrame",
     columns |-> <<"Rank", name_col, label_col>>,
     rows |-> <<[x \in {"Rank", name_col, label_col} |->
                    IF x = "Rank" THEN 1 ELSE IF x = name_col THEN n1 ELSE label],
                [x \in {"Rank", name_col, label_col} |->
                    IF x = "Rank" THEN 2 ELSE IF x = name_col THEN n2 ELSE label],
                [x \in {"Rank", name_col, label_col} |->
                    IF x = "Rank" THEN 3 ELSE IF x = name_col THEN n3 ELSE label]>>]

\* The static tables fetch_market_trends falls back to.
StaticTrends ==
    [trending_skills |->
        ThreeRows("Trending Skill", "General Security Skills",
                  "Threat Analysis", "Security Fundamentals",
                  "Category", "2026 Market Trend"),
     certifications |->
        ThreeRows("Certification", "CompTIA Security+ (SY0-701)", "CISSP",
                  "General Security Certifications",
                  "Year", "2026 Standard")]

\* The session is on question 10 with ten answers A-D stored.
TenAnswers ==
    /\ session.current_question = 10
    /\ \A i \in 1..10 : session.responses[i] \in ChoiceLetters

\* C20 as stated: a Submit run on question 10 with ten valid answers keeps
\* the classifier's result stored and ends only in the completed state.
C20_SubmitAlwaysCompletes ==
    [][(script.at \in {"fetch", "fetched"} /\ TenAnswers) =>
          /\ session'.results = get_cyber_domain(session.responses)
          /\ script'.at = "idle" => session'.quiz_complete]_vars

\* C20 amended: a failure inside fetch_market_trends does not reach the app.
\* Submit on question 10 with ten valid answers stores the classifier's
\* result as returned and goes on to the market data; fetch_market_trends
\* raises nothing, the static three-row tables coming back from a failure,
\* and the tables are stored beside the unchanged result; the run then
\* completes the quiz with that result in place.  Only a new event of the
\* session ends the run before its last line, and it leaves what the run has
\* stored as it is; a run that no event ends does complete.
C20_MarketFailureDoesNotBlock ==
    /\ [][/\ (event'.name = "submit" /\ TenAnswers) =>
                 /\ script'.at = "fetch"
                 /\ session'.results = get_cyber_domain(session.responses)
                 /\ session'.results.kind = "returned"
          /\ script.at = "fetch" => event'.name \in {"fetched", "stop"}
          /\ event'.name = "fetched" =>
                 /\ script'.at = "fetched"
                 /\ session'.results = session.results
                 /\ event'.fault => session'.market_data = StaticTrends
                 /\ ~event'.fault =>
                        /\ Len(session'.market_data.trending_skills.rows) = 10
                        /\ Len(session'.market_data.certifications.rows) = 8
          /\ script.at = "fetched" => event'.name \in {"complete", "stop"}
          /\ event'.name = "complete" =>
                 /\ session'.quiz_complete
                 /\ session'.selected_page = "Career Navigator"
                 /\ session'.results = get_cyber_domain(session.responses)
                 /\ session'.market_data = session.market_data
          /\ (event'.name = "stop" /\ script.at \in {"fetch", "fetched"}) =>
                 /\ session' = session
                 /\ session.results = get_cyber_domain(session.responses)
                 /\ ~session.quiz_complete]_vars
    /\ [](script.at \in {"fetch", "fetched"} =>
             <>(session.quiz_complete \/ event.name = "stop"))

\* A Submit run completed the quiz although the market data fetch had failed:
\* the result is the classifier's, the tables are the static ones.
C20_Witness ==
    /\ event = [name |-> "complete", fault |-> TRUE]
    /\ TenAnswers
    /\ session.quiz_complete
    /\ session.results = get_cyber_domain(session.responses)
    /\ session.results.domain = "GRC"
    /\ Len(session.market_data.trending_skills.rows) = 3

\* The questions of the submitted list whose token is not one of A, B, C, D
\* once upper-cased and trimmed.
OffendingQuestions ==
    {i \in 1..Len(responses) : TrimmedUpper(responses[i]) \notin ChoiceLetters}

\* C21: the length is checked before any letter, so a list of the wrong length
\* fails with the length error even when it holds invalid letters; a list of
\* ten with several invalid letters fails at the lowest-numbered offending
\* question, reporting its token upper-cased and trimmed.
C21_LengthFirstThenLowestQuestion ==
    pc = "done" =>
        /\ Len(responses) # 10 =>
              /\ outcome.kind = "raised"
              /\ outcome.what = "length"
              /\ outcome.got = Len(responses)
        /\ (Len(responses) = 10 /\ OffendingQuestions # {}) =>
              /\ outcome.kind = "raised"
              /\ outcome.what = "answer"
              /\ outcome.question \in OffendingQuestions
              /\ \A i \in OffendingQuestions : outcome.question <= i
              /\ outcome.answer = TrimmedUpper(responses[outcome.question])

\* A B " e" A A A "ad\t" A A E was refused at question 3, the first of three
\* offending questions, with the token reported as E.
C21_Witness ==
    /\ Raised
    /\ Len(responses) = 10
    /\ OffendingQuestions = {3, 7, 10}
    /\ responses[3] = <<" ", "e">>
    /\ outcome.what = "answer"
    /\ outcome.question = 3
    /\ outcome.answer = <<"E">>

\* C22: with the reference weight table, every valid input leaves a gap below
\* 50 between the highest and the second-highest score, so the clamp at 100
\* never takes effect: the confidence is 50 + gap and stays below 100.0.
C22_ClampNeverTakesEffect ==
    (pc = "done" /\ valid_input) =>
        /\ outcome.kind = "returned"
        /\ Gap(outcome.scores) < max_possible_difference
        /\ outcome.confidence = 500 + 10 * Gap(outcome.scores)
        /\ outcome.confidence < 1000

\* The widest gap any valid input reaches: 37, confidence 87.0.
C22_Witness ==
    /\ Returned
    /\ valid_input
    /\ Gap(outcome.scores) = 37
    /\ outcome.confidence = 870

\* C23: in every state of the quiz flow current_question is in 1..10 and every
\* question before it has a stored answer A-D; so whenever Submit can be
\* pressed on question 10 with an answer selected, responses holds no None,
\* the classifier is handed ten valid letters and returns, and a Submit so
\* pressed stores the classifier's result instead of reporting missing
\* answers.
C23_AnsweredBelowCurrent ==
    /\ session.current_question \in 1..10
    /\ \A i \in 1..(session.current_question - 1) :
           session.responses[i] \in ChoiceLetters
    /\ (/\ InQuiz
        /\ session.current_question = 10
        /\ session.responses[10] # NoAnswer) =>
           /\ \A i \in 1..10 : session.responses[i] \in ChoiceLetters
           /\ IsValidInput(session.responses)
           /\ get_cyber_domain(session.responses).kind = "returned"
    /\ (event.name = "submit" /\ session.responses[10] # NoAnswer) =>
           /\ script.at = "fetch"
           /\ session.results = get_cyber_domain(session.responses)

\* Submit was pressed on question 10 with B D D D D D D D D D stored, and the
\* run went on with the classifier's result.
C23_Witness ==
    /\ event.name = "submit"
    /\ session.current_question = 10
    /\ session.responses =
           <<<<"B">>, <<"D">>, <<"D">>, <<"D">>, <<"D">>,
             <<"D">>, <<"D">>, <<"D">>, <<"D">>, <<"D">>>>
    /\ script.at = "fetch"
    /\ session.results.kind = "returned"

\* What get_cyber_domain raises: a length error or an answer error.
ClassifierErrors == {LengthError(9), AnswerError(<<"E">>, 5)}

\* C24: quiz_complete implies that results and market_data are both set; a
\* Submit run writes results, then market_data, and quiz_complete only after
\* both; and a classifier that raises during Submit leaves the session as it
\* is, quiz_complete False and results None.
C24_CompleteImpliesResultsAndMarket ==
    /\ session.quiz_complete =>
           /\ session.results # None
           /\ session.results.kind = "returned"
           /\ session.market_data # None
           /\ session.market_data.trending_skills.type = "DataFrame"
    /\ script.at = "fetch" =>
           /\ ~session.quiz_complete
           /\ session.results # None
    /\ script.at = "fetched" =>
           /\ ~session.quiz_complete
           /\ session.results # None
           /\ session.market_data # None
    /\ event.name = "complete" => session.quiz_complete
    /\ (InQuiz /\ script = Idle /\ session.current_question = 10) =>
           /\ ~session.quiz_complete
           /\ \A e \in ClassifierErrors :
                  LET after == StoreResults(session, e)
                  IN  /\ ~after.quiz_complete
                      /\ after = session
                      /\ session.results = None => after.results = None

\* A Submit run has just completed a quiz classified Red Team: the result and
\* the eight-row certification table are stored, and no roadmap yet.
C24_Witness ==
    /\ event.name = "complete"
    /\ session.quiz_complete
    /\ session.results.domain = "Red Team"
    /\ Len(session.market_data.certifications.rows) = 8
    /\ session.roadmap = None

\* C25: roadmap_generated implies that roadmap is set and that the quiz is
\* complete with results and market_data set.
C25_GeneratedImpliesRoadmapSet ==
    session.roadmap_generated =>
        /\ session.roadmap # None
        /\ session.quiz_complete
        /\ session.results # None
        /\ session.market_data # None

\* The rest of the roadmap buttons' contract: a generation that raises leaves
\* the session as it was, and Regenerate Roadmap clears roadmap and
\* roadmap_generated and nothing else.
RoadmapButtonsFrame ==
    [][/\ event'.name = "regenerate" =>
             /\ session.roadmap_generated
             /\ session' = [session EXCEPT !.roadmap = None,
                                           !.roadmap_generated = FALSE]
       /\ event'.name \in {"generate", "roadmap"} =>
             /\ session' # session => session'.roadmap_generated
             /\ StoreRoadmap(session,
                             Error("Exception",
                                   <<"Failed to generate roadmap: ">>))
                    = session]_vars

\* C26: Retake Quiz, pressed in any completed state, puts the session back to
\* its initial values (question 1, ten empty responses, quiz_complete False,
\* results, market_data and roadmap None, roadmap_generated False) and leaves
\* selected_page as it was.
C26_RetakeRestoresInitial ==
    [][event'.name = "retake" =>
          /\ session.quiz_complete
          /\ session.results # None
          /\ session' = [InitialSession EXCEPT
                             !.selected_page = session.selected_page]
          /\ session'.selected_page = session.selected_page]_vars

\* Retake Quiz has just been pressed: the session is the initial one.
C26_Witness ==
    /\ event.name = "retake"
    /\ session.current_question = 1
    /\ \A i \in 1..10 : session.responses[i] = NoAnswer
    /\ ~session.quiz_complete
    /\ session.results = None
    /\ session.market_data = None
    /\ session.roadmap = None
    /\ ~session.roadmap_generated
    /\ session.selected_page = "Career Navigator"

====
